---------------------------- MODULE Spec2Model ----------------------------
(***************************************************************************)
(* Model of the ai-journal backend: the credential store                   *)
(* (backend/database/auth.py), the auth routes (backend/routes/auth.py)    *)
(* and the Ollama client's retry loop (backend/llm_client.py).             *)
(*                                                                         *)
(* Strings are sequences of one-character strings, so that len(),          *)
(* isdigit(), isalnum() and replace() are computed as Python computes      *)
(* them.                                                                   *)
(***************************************************************************)
EXTENDS Integers, Sequences, FiniteSets, TLC

(***************************************************************************)
(* Bounds of the model.                                                    *)
(***************************************************************************)
\* longest PIN enumerated over PinAlphabet
MaxPinLen == 7
\* longest username enumerated over NameAlphabet
MaxNameEnum == 3
\* longest padded username ("a" repeated) that is tried
MaxNameLen == 22

(***************************************************************************)
(* Characters and Python's str predicates.                                 *)
(***************************************************************************)
Digits == {"0", "1", "2", "3", "4", "5", "6", "7", "8", "9"}

Letters == {"a", "b", "c", "d", "e", "i", "l", "m", "n", "o", "r", "s", "u", "x"}

\* str.isdigit(): non-empty and every character is a digit
IsDigit(s) == Len(s) > 0 /\ \A i \in 1..Len(s) : s[i] \in Digits

\* str.isalnum(): non-empty and every character is a letter or a digit
IsAlnum(s) == Len(s) > 0 /\ \A i \in 1..Len(s) : s[i] \in (Letters \cup Digits)

\* str.replace(ch, ''): every occurrence of ch removed
RECURSIVE Remove(_, _)
Remove(s, ch) ==
    IF s = << >> THEN << >>
    ELSE IF Head(s) = ch THEN Remove(Tail(s), ch)
         ELSE << Head(s) >> \o Remove(Tail(s), ch)

\* the characters str.strip() removes
Whitespace == {" ", "\t", "\n", "\r"}

\* str.strip(): leading and trailing whitespace removed
RECURSIVE LStrip(_)
LStrip(s) ==
    IF s # << >> /\ Head(s) \in Whitespace THEN LStrip(Tail(s)) ELSE s

RECURSIVE RStrip(_)
RStrip(s) ==
    IF s # << >> /\ s[Len(s)] \in Whitespace
    THEN RStrip(SubSeq(s, 1, Len(s) - 1))
    ELSE s

Strip(s) == RStrip(LStrip(s))

\* ch repeated n times
Repeat(ch, n) == [i \in 1..n |-> ch]

(***************************************************************************)
(* Outcomes of a call: an ordinary return value or a raised exception.     *)
(***************************************************************************)
Return(v) == [kind |-> "return", value |-> v]

Raise(exc, msg) == [kind |-> "raise", exc |-> exc, msg |-> msg]

\* dict.get with a default
Get(data, key, default) ==
    IF key \in DOMAIN data THEN data[key] ELSE default

None == [none |-> TRUE]

MsgPin == "PIN must be 4-6 digits"

MsgAlnum == "Username must be alphanumeric (with optional _ or -)"

MsgLen == "Username must be 3-20 characters"

(***************************************************************************)
(* create_user, lines 120-129: the format checks, in the code's order.     *)
(* "ok" means the call goes on to open a connection.                       *)
(***************************************************************************)
\* the lower length check off by one
PinRejected_offByOne(pin) == ~IsDigit(pin) \/ Len(pin) <= 4 \/ Len(pin) > 6

PinRejected(pin) == ~IsDigit(pin) \/ Len(pin) < 4 \/ Len(pin) > 6

\* only '_' is removed before isalnum()
NameNotAlnum_keepsDash(username) == ~IsAlnum(Remove(username, "_"))

NameNotAlnum(username) == ~IsAlnum(Remove(Remove(username, "_"), "-"))

NameBadLength(username) == Len(username) < 3 \/ Len(username) > 20

Validate(username, pin) ==
    IF PinRejected(pin) THEN Raise("ValueError", MsgPin)
    ELSE IF NameNotAlnum(username) THEN Raise("ValueError", MsgAlnum)
    ELSE IF NameBadLength(username) THEN Raise("ValueError", MsgLen)
    ELSE Return("ok")

(***************************************************************************)
(* werkzeug.security: generate_password_hash(pin, 'pbkdf2:sha256') and     *)
(* check_password_hash, as create_user and verify_user use them.  The      *)
(* stored string "method$salt$digest" is the record [method, salt,         *)
(* digest]; the PBKDF2 digest is a keyed polynomial fold of the salt and   *)
(* the PIN's characters, a deterministic function of both.                 *)
(***************************************************************************)
CharTable ==
    << "0", "1", "2", "3", "4", "5", "6", "7", "8", "9",
       "a", "b", "c", "d", "e", "i", "l", "m", "n", "o", "r", "s", "u", "x",
       "_", "-", "@", " " >>

Code(c) == CHOOSE i \in 1..Len(CharTable) : CharTable[i] = c

RECURSIVE Mix(_, _)
Mix(acc, s) ==
    IF s = << >> THEN acc
    ELSE Mix((acc * 31 + Code(Head(s))) % 1000003, Tail(s))

Digest(salt, pin) == Mix(Mix(7, salt), pin)

Salts == { << "s" >>, << "x" >> }

generate_password_hash(pin, salt) ==
    [method |-> "pbkdf2:sha256", salt |-> salt, digest |-> Digest(salt, pin)]

\* the stored method is compared with another method's name
check_password_hash_wrongMethod(pwhash, pin) ==
    /\ pwhash.method = "scrypt"
    /\ Digest(pwhash.salt, pin) = pwhash.digest

check_password_hash(pwhash, pin) ==
    /\ pwhash.method = "pbkdf2:sha256"
    /\ Digest(pwhash.salt, pin) = pwhash.digest

(***************************************************************************)
(* The users table and the two backends.                                   *)
(***************************************************************************)
Backends == {"sqlite", "postgres"}

\* values datetime.utcnow().isoformat() may give
Times == {"2024-01-01T00:00:00"}

\* the inputs of the store-level calls
Alice == << "a", "l", "i", "c", "e", "1", "2", "3" >>

Bob == << "b", "o", "b" >>

NameTooShort == << "a", "b" >>

Pin4242 == << "4", "2", "4", "2" >>

Pin0000 == << "0", "0", "0", "0" >>

PinTooShort == << "1", "2", "3" >>

Usernames == {Alice, Bob, NameTooShort}

Pins == {Pin4242, Pin0000, PinTooShort}

\* cap on the id sequence of the users table
MaxId == 3

\* the threads that call into the store concurrently
Threads == {"t1", "t2"}

\* the ids a caller may look up: issued ones and some never issued
LookupIds == 0..(MaxId + 1)

(***************************************************************************)
(* Errors of the database driver.  A message is a sequence of words;       *)
(* Sniff is line 162: 'unique' in str(e).lower() or 'duplicate' in ...     *)
(***************************************************************************)
\* the message is not lower-cased before the test
Lower_identity(w) == w

Lower(w) == IF w = "UNIQUE" THEN "unique" ELSE w

ContainsWord(msg, w) == \E i \in 1..Len(msg) : Lower(msg[i]) = w

Sniff(e) == ContainsWord(e.msg, "unique") \/ ContainsWord(e.msg, "duplicate")

\* the error the backend raises for a second row with the same username
UniqueViolation(b) ==
    IF b = "sqlite"
    THEN Raise("IntegrityError",
               << "UNIQUE", "constraint", "failed:", "users.username" >>)
    ELSE Raise("UniqueViolation",
               << "duplicate", "key", "value", "violates", "unique",
                  "constraint", "users_username_key" >>)

\* a storage failure that is not a uniqueness conflict
StorageErrors ==
    { Raise("OperationalError", << "database", "is", "locked" >>) }

IsStorageError(r) == r \in StorageErrors

\* PostgreSQL's error for an INSERT whose id, drawn from the sequence of
\* the SERIAL column, is already in the table (a sequence behind the table's
\* ids, as rows loaded with explicit ids leave it)
PkeyViolation ==
    Raise("UniqueViolation",
          << "duplicate", "key", "value", "violates", "unique", "constraint",
             "users_pkey" >>)

\* the errors the statement at a fault point can raise on backend b
ErrorsAt(b, at) ==
    IF b = "postgres" /\ at = "insert"
    THEN StorageErrors \cup {PkeyViolation}
    ELSE StorageErrors

(***************************************************************************)
(* State.                                                                  *)
(***************************************************************************)
VARIABLES
    backend,    \* _is_postgres(): which backend the connection string selects
    users,      \* the committed rows of the users table
    id_seq,     \* last value of the table's id sequence
    pc,         \* per thread: where its store call stands
    call,       \* per thread: the call it is in (operation, arguments, and
                \* for create_user the summaries returned before the call)
    pending,    \* per thread: the row its open transaction has inserted
    res,        \* per thread: the outcome of the call that has just ended
    conn,       \* per thread: the connection of its call: "none" before
                \* _get_connection(), then "open", "closed" after conn.close()
    created,    \* history: per username, what create_user returned a summary
                \* for (its id, and the PIN and hash of that call)
    vin,        \* the (username, pin) pair handed to the format checks
    vres,       \* what create_user's format checks gave for vin
    vstatus,    \* the status the register route answers for vres
    session,    \* the client's session: the logged-in user's id, 0 for none
    req,        \* the request the routes handled last
    resp,       \* the response to req
    scen,       \* how many steps of the end-to-end scenario the requests
                \* since the empty store have followed; -1 once they left it
    config,     \* app.config: RATE_LIMIT_ENABLED, and whether
                \* ANTHROPIC_API_KEY is set
    request_counts, \* routes/ai.py line 13: per client address, the times
                \* of the requests the rate limiter admitted
    now,        \* time.time(), in seconds
    stages,     \* history: what ran for the last request to a protected
                \* route: "login_required", "rate_limit", "body", "llm"
    reply,      \* history: what client.messages.create gave for the last
                \* request to an AI route, if it was called
    admitted,   \* history: per client address, every time line 39 of
                \* routes/ai.py recorded, in order, cleaning aside
    rl_pc,      \* per thread: where its pass through rate_limit stands
    rl_local,   \* per thread: rate_limit's locals client_ip, current_time
                \* and hour_ago, and the list built at line 30
    max_retries,    \* OllamaClient.max_retries
    retry_delay,    \* OllamaClient.retry_delay
    gpc,        \* where the _make_request call stands
    attempt,    \* the loop variable of _make_request
    last_error, \* _make_request's last_error
    outcomes,   \* history: what each request sent to the endpoint met
    sleeps,     \* history: the delays slept, in order
    gres,       \* the outcome of generate: the text of line 123, or the
                \* exception _make_request raised
    gargs,      \* generate's arguments prompt and system
    payload,    \* generate's payload
    sent,       \* history: the body of each request sent to the endpoint
    checks,     \* history: what each check_health call met and gave
    stores,     \* per backend: a database of its own, given the same calls
                \* as the other's: whether the users table exists, its
                \* rows, and the last value of its id sequence
    outs,       \* per backend: the outcome of the last call on its database
    op,         \* the call made last on the two databases
    clean       \* history: every create_user, verify_user and
                \* get_user_by_id so far found the table and met no
                \* storage failure

dbVars == << backend, users, id_seq, created >>

threadVars == << pc, call, pending, res, conn >>

storeVars == << dbVars, threadVars >>

validateVars == << vin, vres, vstatus >>

seqVars == << stores, outs, op, clean >>

limVars == << rl_pc, rl_local >>

aiVars == << config, request_counts, now, stages, reply, admitted, limVars >>

routeVars == << session, req, resp, scen, aiVars >>

genVars ==
    << max_retries, retry_delay, gpc, attempt, last_error, outcomes, sleeps,
       gres, gargs, payload, sent, checks >>

vars == << storeVars,
                   validateVars, seqVars, routeVars, genVars >>

(***************************************************************************)
(* Values.                                                                 *)
(***************************************************************************)
NoCall == [op |-> "none"]

NoRow == [id |-> 0]

NoResult == [kind |-> "none"]

\* class User, lines 14-24
User(user_id, username) ==
    [id |-> user_id, username |-> username, is_authenticated |-> TRUE]

\* the dict create_user returns, lines 154-158
Summary(row) ==
    [id |-> row.id, username |-> row.username, created_at |-> row.created_at]

(***************************************************************************)
(* The queries, as the backend evaluates them on the committed rows.       *)
(***************************************************************************)
HasUsername(tbl, username) == \E r \in tbl : r.username = username

\* SELECT ... WHERE username = ?  and fetchone()
SelectByUsername(tbl, username) ==
    IF HasUsername(tbl, username)
    THEN CHOOSE r \in tbl : r.username = username
    ELSE NoRow

\* SELECT ... WHERE id = ?  and fetchone()
SelectById(tbl, user_id) ==
    IF \E r \in tbl : r.id = user_id
    THEN CHOOSE r \in tbl : r.id = user_id
    ELSE NoRow

\* the hash is not compared: any PIN matches a found row
VerifyResult_noHashCheck(tbl, username, pin) ==
    LET row == SelectByUsername(tbl, username)
    IN  IF row # NoRow
        THEN Return(User(row.id, row.username))
        ELSE Return(None)

\* verify_user, lines 188-194, given the fetched row
VerifyResult(tbl, username, pin) ==
    LET row == SelectByUsername(tbl, username)
    IN  IF row # NoRow /\ check_password_hash(row.pin_hash, pin)
        THEN Return(User(row.id, row.username))
        ELSE Return(None)

\* the fetched row is ignored
GetResult_alwaysNone(tbl, user_id) == Return(None)

\* get_user_by_id, lines 215-221, given the fetched row
GetResult(tbl, user_id) ==
    LET row == SelectById(tbl, user_id)
    IN  IF row # NoRow THEN Return(User(row.id, row.username))
        ELSE Return(None)

\* the column is declared without UNIQUE
ViolatesUnique_none(tbl, username) == FALSE

\* the UNIQUE constraint on users.username, lines 87 and 96
ViolatesUnique(tbl, username) == HasUsername(tbl, username)

\* what the history keeps of a create_user call that returned a summary
CreatedEntry(row, pin) == [id |-> row.id, pin |-> pin, pin_hash |-> row.pin_hash]

\* create_user's except clause, lines 159-164: roll back, then None or re-raise
ExceptHandler(e) == IF Sniff(e) THEN Return(None) ELSE e

\* the sequence steps by two
NextId_byTwo(seq) == seq + 2

\* the id the backend gives the next row: AUTOINCREMENT / SERIAL, lines 86, 95
NextId(seq) == seq + 1

\* the row the INSERT of lines 139-150 writes
NewRow(seq, username, pin, salt, created_at) ==
    [id |-> NextId(seq), username |-> username,
     pin_hash |-> generate_password_hash(pin, salt), created_at |-> created_at]

\* the sequence after an INSERT was executed: a SERIAL value is consumed at
\* once, also by a row that is rejected or rolled back; AUTOINCREMENT's
\* counter is written with the row, at commit
SeqAfterInsert(b, seq) == IF b = "postgres" THEN NextId(seq) ELSE seq

\* the sequence after the commit of a row
SeqAfterCommit(b, seq, row) == IF b = "sqlite" THEN row.id ELSE seq

\* an INSERT waits while another open transaction holds the write lock
\* (sqlite) or an uncommitted row with the same username (postgres)
Blocked(t) ==
    \E t2 \in Threads \ {t} :
        /\ pc[t2] = "inserted"
        /\ backend = "sqlite" \/ pending[t2].username = call[t].username

InFlight == Cardinality({t \in Threads : pc[t] \in {"connected", "inserted"}})

(***************************************************************************)
(* create_user, lines 109-166.                                             *)
(***************************************************************************)
\* lines 120-133: the format checks, then the connection is opened
CreateCall(t, username, pin) ==
    /\ pc[t] = "idle"
    /\ id_seq + InFlight < MaxId
    /\ call' = [call EXCEPT ![t] =
                  [op |-> "create_user", username |-> username, pin |-> pin,
                   id |-> 0, known |-> created[username]]]
    /\ LET v == Validate(username, pin)
       IN  IF v.kind = "raise"
           THEN /\ pc' = [pc EXCEPT ![t] = "ret"]
                /\ res' = [res EXCEPT ![t] = v]
                /\ conn' = conn
           ELSE /\ pc' = [pc EXCEPT ![t] = "connected"]
                /\ res' = res
                /\ conn' = [conn EXCEPT ![t] = "open"]
    /\ UNCHANGED << backend, users, id_seq, pending, created,
                   validateVars, seqVars, routeVars, genVars >>

\* lines 135-150: hash, timestamp and the INSERT; on an exception lines 159-166
CreateInsert(t) ==
    /\ pc[t] = "connected"
    /\ call[t].op = "create_user"
    /\ \/ \E e \in StorageErrors :
            /\ res' = [res EXCEPT ![t] = ExceptHandler(e)]
            /\ pc' = [pc EXCEPT ![t] = "ret"]
            /\ conn' = [conn EXCEPT ![t] = "closed"]
            /\ UNCHANGED << id_seq, pending >>
       \/ /\ ~Blocked(t)
          /\ ViolatesUnique(users, call[t].username)
          /\ res' = [res EXCEPT ![t] = ExceptHandler(UniqueViolation(backend))]
          /\ pc' = [pc EXCEPT ![t] = "ret"]
          /\ conn' = [conn EXCEPT ![t] = "closed"]
          /\ id_seq' = SeqAfterInsert(backend, id_seq)
          /\ UNCHANGED pending
       \/ /\ ~Blocked(t)
          /\ ~ViolatesUnique(users, call[t].username)
          /\ \E salt \in Salts, created_at \in Times :
                pending' = [pending EXCEPT ![t] =
                    NewRow(id_seq, call[t].username, call[t].pin, salt,
                           created_at)]
          /\ pc' = [pc EXCEPT ![t] = "inserted"]
          /\ id_seq' = SeqAfterInsert(backend, id_seq)
          /\ UNCHANGED << res, conn >>
    /\ UNCHANGED << backend, users, call, created,
                   validateVars, seqVars, routeVars, genVars >>

\* lines 152-158: commit and return the summary; a failed commit goes to
\* lines 159-166
CreateCommit(t) ==
    /\ pc[t] = "inserted"
    /\ \/ /\ users' = users \cup {pending[t]}
          /\ id_seq' = SeqAfterCommit(backend, id_seq, pending[t])
          /\ res' = [res EXCEPT ![t] = Return(Summary(pending[t]))]
          /\ created' = [created EXCEPT ![pending[t].username] =
                            @ \cup {CreatedEntry(pending[t], call[t].pin)}]
       \/ \E e \in StorageErrors :
            /\ res' = [res EXCEPT ![t] = ExceptHandler(e)]
            /\ UNCHANGED << users, id_seq, created >>
    /\ pc' = [pc EXCEPT ![t] = "ret"]
    /\ conn' = [conn EXCEPT ![t] = "closed"]
    /\ pending' = [pending EXCEPT ![t] = NoRow]
    /\ UNCHANGED << backend, call,
                   validateVars, seqVars, routeVars, genVars >>

(***************************************************************************)
(* verify_user, lines 169-194, and get_user_by_id, lines 197-221: one      *)
(* SELECT each; an error of the SELECT is not caught, and the conn.close()  *)
(* of lines 189 and 216 comes after the SELECT.                            *)
(***************************************************************************)
VerifyCall(t, username, pin) ==
    /\ pc[t] = "idle"
    /\ call' = [call EXCEPT ![t] =
                  [op |-> "verify_user", username |-> username, pin |-> pin,
                   id |-> 0, known |-> {}]]
    /\ \/ /\ res' = [res EXCEPT ![t] = VerifyResult(users, username, pin)]
          /\ conn' = [conn EXCEPT ![t] = "closed"]
       \/ /\ \E e \in StorageErrors : res' = [res EXCEPT ![t] = e]
          /\ conn' = [conn EXCEPT ![t] = "open"]
    /\ pc' = [pc EXCEPT ![t] = "ret"]
    /\ UNCHANGED << backend, users, id_seq, pending, created,
                   validateVars, seqVars, routeVars, genVars >>

GetCall(t, user_id) ==
    /\ pc[t] = "idle"
    /\ call' = [call EXCEPT ![t] =
                  [op |-> "get_user_by_id", username |-> << >>, pin |-> << >>,
                   id |-> user_id, known |-> {}]]
    /\ \/ /\ res' = [res EXCEPT ![t] = GetResult(users, user_id)]
          /\ conn' = [conn EXCEPT ![t] = "closed"]
       \/ /\ \E e \in StorageErrors : res' = [res EXCEPT ![t] = e]
          /\ conn' = [conn EXCEPT ![t] = "open"]
    /\ pc' = [pc EXCEPT ![t] = "ret"]
    /\ UNCHANGED << backend, users, id_seq, pending, created,
                   validateVars, seqVars, routeVars, genVars >>

\* the caller takes the outcome; the thread is free for its next call
TakeResult(t) ==
    /\ pc[t] = "ret"
    /\ pc' = [pc EXCEPT ![t] = "idle"]
    /\ call' = [call EXCEPT ![t] = NoCall]
    /\ res' = [res EXCEPT ![t] = NoResult]
    /\ conn' = [conn EXCEPT ![t] = "none"]
    /\ UNCHANGED << backend, users, id_seq, pending, created,
                   validateVars, seqVars, routeVars, genVars >>

(***************************************************************************)
(* The store under concurrent callers.                                     *)
(***************************************************************************)
ValidateIdle ==
    /\ vin = << << >>, << >> >>
    /\ vres = NoResult
    /\ vstatus = 0

\* a database before init_auth_db has run on it
NoStore == [schema |-> FALSE, users |-> {}, id_seq |-> 0]

SeqIdle ==
    /\ stores = [b \in Backends |-> NoStore]
    /\ outs = [b \in Backends |-> NoResult]
    /\ op = NoCall
    /\ clean = TRUE

NoRequest == [kind |-> "none"]

NoResponse == [status |-> 0]

\* no request handled yet, no session
\* addresses of the clients
ClientIps == {"10.0.0.1", "10.0.0.2"}

\* no thread is inside rate_limit
NoLocals == [client_ip |-> "", current_time |-> 0, hour_ago |-> 0,
             kept |-> << >>]

LimiterIdle ==
    /\ rl_pc = [t \in Threads |-> "idle"]
    /\ rl_local = [t \in Threads |-> NoLocals]

\* config.py, lines 28 and 32, with their defaults (no key; enabled), and
\* no request seen
AiIdle ==
    /\ config = [RATE_LIMIT_ENABLED |-> TRUE, ANTHROPIC_API_KEY |-> FALSE]
    /\ request_counts = [ip \in ClientIps |-> << >>]
    /\ now = 0
    /\ stages = << >>
    /\ reply = NoResult
    /\ admitted = [ip \in ClientIps |-> << >>]
    /\ LimiterIdle

RoutesIdle ==
    /\ session = 0
    /\ req = NoRequest
    /\ resp = NoResponse
    /\ scen = 0
    /\ AiIdle

NoArgs == [prompt |-> << >>]

NoPayload == [model |-> ""]

\* the client's defaults (llm_client.py, lines 34-35), no call made
GenIdle ==
    /\ max_retries = 3
    /\ retry_delay = 1
    /\ gpc = "idle"
    /\ attempt = 0
    /\ last_error = << "None" >>
    /\ outcomes = << >>
    /\ sleeps = << >>
    /\ gres = NoResult
    /\ gargs = NoArgs
    /\ payload = NoPayload
    /\ sent = << >>
    /\ checks = << >>

Init ==
    /\ backend \in Backends
    /\ users = {}
    /\ id_seq = 0
    /\ pc = [t \in Threads |-> "idle"]
    /\ call = [t \in Threads |-> NoCall]
    /\ pending = [t \in Threads |-> NoRow]
    /\ res = [t \in Threads |-> NoResult]
    /\ conn = [t \in Threads |-> "none"]
    /\ created = [u \in Usernames |-> {}]
    /\ ValidateIdle
    /\ SeqIdle
    /\ RoutesIdle
    /\ GenIdle

Next ==
    \/ \E t \in Threads, u \in Usernames, p \in Pins : CreateCall(t, u, p)
    \/ \E t \in Threads : CreateInsert(t)
    \/ \E t \in Threads : CreateCommit(t)
    \/ \E t \in Threads, u \in Usernames, p \in Pins : VerifyCall(t, u, p)
    \/ \E t \in Threads, i \in LookupIds : GetCall(t, i)
    \/ \E t \in Threads : TakeResult(t)

Spec == Init /\ [][Next]_vars

(***************************************************************************)
(* The format checks of create_user over bounded sets of inputs, and the   *)
(* status the register route (routes/auth.py, lines 27-51) answers.        *)
(***************************************************************************)
\* all strings over alphabet A of length 0..n
StringsUpTo(A, n) == UNION { [1..k -> A] : k \in 0..n }

PinAlphabet == {"0", "7", "a"}

NameAlphabet == {"a", "1", "_", "-", "@"}

Pin123 == << "1", "2", "3" >>

Pin1234567 == << "1", "2", "3", "4", "5", "6", "7" >>

PinAbcd == << "a", "b", "c", "d" >>

Pin1234 == << "1", "2", "3", "4" >>

Pin12345 == << "1", "2", "3", "4", "5" >>

Pin123456 == << "1", "2", "3", "4", "5", "6" >>

NameUserAt == << "u", "s", "e", "r", "@", "n", "a", "m", "e" >>

NameUser_Name == << "u", "s", "e", "r", "_", "n", "a", "m", "e" >>

NameUserDash1 == << "u", "s", "e", "r", "-", "1" >>

PinInputs ==
    StringsUpTo(PinAlphabet, MaxPinLen)
        \cup {Pin123, Pin1234567, PinAbcd, Pin1234, Pin12345, Pin123456}

NameInputs ==
    StringsUpTo(NameAlphabet, MaxNameEnum)
        \cup { Repeat("a", k) : k \in 0..MaxNameLen }
        \cup { << c >> \o Repeat("a", k) : c \in {"_", "@"}, k \in 0..(MaxNameLen - 1) }
        \cup {NameTooShort, NameUserAt, NameUser_Name, NameUserDash1, Alice}

ValidateInputs ==
    (NameInputs \X {Pin4242, Pin123456, PinTooShort})
        \cup ({NameUser_Name, NameTooShort, NameUserAt} \X PinInputs)

\* register, lines 27-51: the status for an outcome of create_user
RegisterStatus(outcome) ==
    IF outcome.kind = "raise"
    THEN IF outcome.exc = "ValueError" THEN 400 ELSE 500
    ELSE IF outcome.value = None THEN 409 ELSE 201

\* create_user(vin) runs its format checks; a raised error goes to the route
ValidateStep ==
    /\ vres = NoResult
    /\ vres' = Validate(vin[1], vin[2])
    /\ vstatus' = IF vres'.kind = "raise" THEN RegisterStatus(vres') ELSE 0
    /\ UNCHANGED << vin, storeVars, seqVars, routeVars, genVars >>

StoreIdle ==
    /\ backend = "sqlite"
    /\ users = {}
    /\ id_seq = 0
    /\ pc = [t \in Threads |-> "idle"]
    /\ call = [t \in Threads |-> NoCall]
    /\ pending = [t \in Threads |-> NoRow]
    /\ res = [t \in Threads |-> NoResult]
    /\ conn = [t \in Threads |-> "none"]
    /\ created = [u \in Usernames |-> {}]

InitValidate ==
    /\ StoreIdle
    /\ vin \in ValidateInputs
    /\ vres = NoResult
    /\ vstatus = 0
    /\ SeqIdle
    /\ RoutesIdle
    /\ GenIdle

NextValidate == ValidateStep

SpecValidate == InitValidate /\ [][NextValidate]_vars

(***************************************************************************)
(* C5: create_user fails with InvalidPin (ValueError 'PIN must be 4-6      *)
(* digits', 400 at the register route) exactly when the PIN is not all     *)
(* digits or its length is outside [4,6]; "123", "1234567" and "abcd" are  *)
(* rejected, "1234", "12345" and "123456" pass the PIN check.              *)
(***************************************************************************)
InvalidPin == Raise("ValueError", MsgPin)

AllDigits(s) == \A i \in DOMAIN s : s[i] \in Digits

C5_InvalidPinExactly ==
    vres # NoResult =>
        /\ (vres = InvalidPin) <=> ~(AllDigits(vin[2]) /\ Len(vin[2]) \in 4..6)
        /\ vres = InvalidPin => vstatus = 400
        /\ vin[2] \in {Pin123, Pin1234567, PinAbcd} => vres = InvalidPin
        /\ vin[2] \in {Pin1234, Pin12345, Pin123456} => vres # InvalidPin

C5_Witness ==
    /\ vin[2] = Pin1234567
    /\ vres = InvalidPin
    /\ vstatus = 400

(***************************************************************************)
(* C6: given a valid PIN, create_user fails with InvalidUsername exactly   *)
(* when the username without its '_' and '-' is not alphanumeric or its    *)
(* length is outside [3,20]; "ab", 21 times "a" and "user@name" are        *)
(* rejected, "user_name" and "user-1" are accepted.                        *)
(***************************************************************************)
InvalidUsername == {Raise("ValueError", MsgAlnum), Raise("ValueError", MsgLen)}

NotSeparator(c) == c \notin {"_", "-"}

AlnumWithoutSeparators(s) ==
    LET t == SelectSeq(s, NotSeparator)
    IN  t # << >> /\ \A i \in DOMAIN t : t[i] \in Letters \cup Digits

ValidPin(p) == AllDigits(p) /\ Len(p) \in 4..6

C6_InvalidUsernameExactly ==
    (vres # NoResult /\ ValidPin(vin[2])) =>
        /\ (vres \in InvalidUsername)
              <=> (~AlnumWithoutSeparators(vin[1]) \/ Len(vin[1]) \notin 3..20)
        /\ vres \notin InvalidUsername => vres = Return("ok")
        /\ vin[1] \in {NameTooShort, Repeat("a", 21), NameUserAt}
              => vres \in InvalidUsername
        /\ vin[1] \in {NameUser_Name, NameUserDash1} => vres = Return("ok")

C6_Witness ==
    /\ ValidPin(vin[2])
    /\ vin[1] = Repeat("a", 21)
    /\ vres = Raise("ValueError", MsgLen)

(***************************************************************************)
(* Steps of the store calls, as the claims below speak of them.            *)
(***************************************************************************)
\* thread t's verify_user call takes place in this step
VerifyEnds(t) ==
    pc[t] = "idle" /\ pc'[t] = "ret" /\ call'[t].op = "verify_user"

\* thread t's get_user_by_id call takes place in this step
GetEnds(t) ==
    pc[t] = "idle" /\ pc'[t] = "ret" /\ call'[t].op = "get_user_by_id"

\* thread t's create_user call, past its format checks, ends in this step
CreateEnds(t) ==
    pc[t] \in {"connected", "inserted"} /\ pc'[t] = "ret"

RowsOf(tbl, username) == {r \in tbl : r.username = username}

(***************************************************************************)
(* C1: once create_user(username, pin) has returned a summary, and after   *)
(* any other calls, verify_user(username, pin) returns the identity with   *)
(* the id and the username of that summary (whenever its SELECT is         *)
(* answered).                                                              *)
(***************************************************************************)
C1_CreateThenVerify ==
    [][\A t \in Threads :
          (VerifyEnds(t) /\ ~IsStorageError(res'[t])) =>
              \A c \in created[call'[t].username] :
                  c.pin = call'[t].pin =>
                      res'[t] = Return(User(c.id, call'[t].username))]_vars

C1_Witness ==
    \E t \in Threads :
        /\ pc[t] = "ret"
        /\ call[t].op = "verify_user"
        /\ \E c \in created[call[t].username] :
              /\ c.pin = call[t].pin
              /\ c.id = 2
              /\ res[t] = Return(User(c.id, call[t].username))

(***************************************************************************)
(* C2: for a created user and a PIN other than the one given at creation,  *)
(* verify_user returns None, an ordinary return value and not an error of  *)
(* its own (whenever its SELECT is answered).                              *)
(***************************************************************************)
C2_WrongPinIsNone ==
    [][\A t \in Threads :
          (/\ VerifyEnds(t)
           /\ ~IsStorageError(res'[t])
           /\ created[call'[t].username] # {}
           /\ \A c \in created[call'[t].username] : c.pin # call'[t].pin)
              => res'[t] = Return(None)]_vars

C2_Witness ==
    \E t \in Threads :
        /\ pc[t] = "ret"
        /\ call[t].op = "verify_user"
        /\ created[call[t].username] # {}
        /\ \A c \in created[call[t].username] : c.pin # call[t].pin
        /\ call[t].pin = Pin0000
        /\ res[t] = Return(None)

(***************************************************************************)
(* C3: a create_user call for a username that already has a record, with   *)
(* the same or another PIN, returns None (409 at the register route), and  *)
(* the table keeps exactly one row for that username, with the id and the  *)
(* PIN hash of the first call.                                             *)
(***************************************************************************)
OneRowAsCreated ==
    \A u \in Usernames :
        created[u] # {} =>
            \E r \in users :
                /\ RowsOf(users, u) = {r}
                /\ \A c \in created[u] : r.id = c.id /\ r.pin_hash = c.pin_hash

C3_DuplicateIsAlreadyExists ==
    [][/\ \A t \in Threads :
            (/\ CreateEnds(t)
             /\ created[call[t].username] # {}
             /\ ~IsStorageError(res'[t]))
                => /\ res'[t] = Return(None)
                   /\ RegisterStatus(res'[t]) = 409
       /\ OneRowAsCreated']_vars

C3_Witness ==
    \E t \in Threads :
        /\ pc[t] = "ret"
        /\ call[t].op = "create_user"
        /\ call[t].known # {}
        /\ \A c \in call[t].known : c.pin # call[t].pin
        /\ res[t] = Return(None)
        /\ Cardinality(RowsOf(users, call[t].username)) = 1

(***************************************************************************)
(* C4: of the create_user calls that run concurrently with one valid       *)
(* username at most one returns a summary, every other one that the store  *)
(* answers returns None, and the table never holds two rows with one       *)
(* username; this rests on the table's UNIQUE constraint.                  *)
(***************************************************************************)
C4_ConcurrentCreate ==
    [][/\ \A u \in Usernames :
            /\ Cardinality(RowsOf(users', u)) <= 1
            /\ Cardinality(created'[u]) <= 1
       /\ \A t \in Threads :
            (CreateEnds(t) /\ ~IsStorageError(res'[t])) =>
                \/ /\ res'[t] = Return(None)
                   /\ HasUsername(users, call[t].username)
                \/ /\ pc[t] = "inserted"
                   /\ res'[t] = Return(Summary(pending[t]))
                   /\ ~HasUsername(users, call[t].username)
                   /\ pending[t] \in users']_vars

C4_Witness ==
    \E t1, t2 \in Threads :
        /\ t1 # t2
        /\ pc[t1] = "ret" /\ pc[t2] = "ret"
        /\ call[t1].op = "create_user" /\ call[t2].op = "create_user"
        /\ call[t1].username = call[t2].username
        /\ call[t1].known = {} /\ call[t2].known = {}
        /\ res[t1].kind = "return" /\ res[t1].value # None
        /\ res[t2] = Return(None)

(***************************************************************************)
(* C8: get_user_by_id(id) returns an identity exactly when a row with that *)
(* id exists, and then the identity has that row's id and username; for an *)
(* id that was never issued it returns None.                               *)
(***************************************************************************)
C8_GetUserById ==
    [][\A t \in Threads :
          (GetEnds(t) /\ ~IsStorageError(res'[t])) =>
              LET found == {r \in users : r.id = call'[t].id}
              IN  /\ res'[t].kind = "return"
                  /\ (res'[t].value # None) <=> (found # {})
                  /\ \A r \in found : res'[t] = Return(User(r.id, r.username))
                  /\ (call'[t].id < 1 \/ call'[t].id > id_seq)
                        => res'[t] = Return(None)]_vars

C8_Witness ==
    \E t1, t2 \in Threads :
        /\ pc[t1] = "ret" /\ pc[t2] = "ret"
        /\ call[t1].op = "get_user_by_id" /\ call[t2].op = "get_user_by_id"
        /\ \E r \in users :
              /\ r.id = call[t1].id
              /\ res[t1] = Return(User(r.id, r.username))
        /\ call[t2].id > id_seq
        /\ res[t2] = Return(None)

(***************************************************************************)
(* The store calls as one request handler runs them, start to end.         *)
(* at says where a storage failure e strikes: "none", the INSERT, the      *)
(* commit, or the SELECT of a later verify_user.                           *)
(***************************************************************************)
FaultPoints == {"none", "insert", "commit", "verify"}

\* the table is rewritten with the new row alone
Insert_truncates(tbl, row) == {row}

\* the committed INSERT of lines 139-152: one row more
Insert(tbl, row) == tbl \cup {row}

\* create_user, lines 109-166: the outcome and the table it leaves
create_user(b, tbl, seq, username, pin, salt, created_at, at, e) ==
    LET v   == Validate(username, pin)
        row == NewRow(seq, username, pin, salt, created_at)
    IN  IF v.kind = "raise"
        THEN [res |-> v, users |-> tbl, id_seq |-> seq]
        ELSE IF at = "insert"
        THEN [res |-> ExceptHandler(e), users |-> tbl,
              id_seq |-> IF e = PkeyViolation THEN SeqAfterInsert(b, seq)
                         ELSE seq]
        ELSE IF ViolatesUnique(tbl, username)
        THEN [res |-> ExceptHandler(UniqueViolation(b)), users |-> tbl,
              id_seq |-> SeqAfterInsert(b, seq)]
        ELSE IF at = "commit"
        THEN [res |-> ExceptHandler(e), users |-> tbl,
              id_seq |-> SeqAfterInsert(b, seq)]
        ELSE [res |-> Return(Summary(row)), users |-> Insert(tbl, row),
              id_seq |-> SeqAfterCommit(b, SeqAfterInsert(b, seq), row)]

\* verify_user, lines 169-194
verify_user(tbl, username, pin, at, e) ==
    IF at = "verify" THEN e ELSE VerifyResult(tbl, username, pin)

\* get_user_by_id, lines 197-221
get_user_by_id(tbl, user_id, at, e) ==
    IF at = "verify" THEN e ELSE GetResult(tbl, user_id)

(***************************************************************************)
(* The auth routes, routes/auth.py, and the session of Flask-Login.        *)
(***************************************************************************)
Resp(status, body) == [status |-> status, body |-> body]

ErrorBody(msg) == [error |-> msg]

UserBody(user_id, username) ==
    [success |-> TRUE, user |-> [id |-> user_id, username |-> username]]

\* an empty JSON object: "not data" holds
NoData == [nodata |-> TRUE]

Body(username, pin) == [username |-> username, pin |-> pin]

\* the JSON bodies the client posts: well-formed credentials, a username
\* with blanks around it, an empty field, and no data at all
Bodies ==
    [username : {Alice}, pin : {Pin4242, Pin0000, Pin123456, PinTooShort}]
        \cup [username : {Bob}, pin : {Pin4242, Pin0000}]
        \cup { Body(<< " " >> \o Alice \o << " " >>, Pin4242),
               Body(<< >>, Pin4242), Body(Alice, << " " >>), NoData }

\* app.py, lines 46-53: an exception that leaves a handler
InternalError == Resp(500, ErrorBody("Internal server error"))

\* app.py, lines 27-29
Unauthorized == Resp(401, ErrorBody("Authentication required"))

\* the session is left as it was
login_user_noop(sess, user) == sess

\* flask_login.login_user (lines 36 and 73): the session takes the user's id
login_user(sess, user) == user.id

\* the session is left as it was
logout_user_noop(sess) == sess

\* flask_login.logout_user (line 89): the session has no user
logout_user(sess) == 0

\* register, lines 13-51: the response, the table and the session it leaves
RegisterHandler(b, tbl, seq, sess, data, salt, created_at, at, e) ==
    LET same(r) == [resp |-> r, users |-> tbl, id_seq |-> seq,
                    session |-> sess, made |-> {}]
    IN  IF data = NoData
        THEN same(Resp(400, ErrorBody("No data provided")))
        ELSE
        LET username == Strip(data.username)
            pin      == Strip(data.pin)
        IN  IF username = << >> \/ pin = << >>
            THEN same(Resp(400, ErrorBody("Username and PIN are required")))
            ELSE
            LET c == create_user(b, tbl, seq, username, pin, salt,
                                 created_at, at, e)
                kept(r) == [resp |-> r, users |-> c.users,
                            id_seq |-> c.id_seq, session |-> sess,
                            made |-> {}]
            IN  IF c.res.kind = "raise"
                THEN IF c.res.exc = "ValueError"
                     THEN kept(Resp(RegisterStatus(c.res),
                                    ErrorBody(c.res.msg)))
                     ELSE kept(Resp(RegisterStatus(c.res),
                                    ErrorBody("Registration failed")))
                ELSE IF c.res.value = None
                THEN kept(Resp(RegisterStatus(c.res),
                               ErrorBody("Username already exists")))
                ELSE
                LET user == verify_user(c.users, username, pin, at, e)
                    row  == SelectByUsername(c.users, username)
                IN  IF user.kind = "raise"
                    THEN [resp |-> Resp(500, ErrorBody("Registration failed")),
                          users |-> c.users, id_seq |-> c.id_seq,
                          session |-> sess,
                          made |-> {CreatedEntry(row, pin)}]
                    ELSE [resp |-> Resp(RegisterStatus(c.res),
                                        UserBody(c.res.value.id,
                                                 c.res.value.username)),
                          users |-> c.users, id_seq |-> c.id_seq,
                          session |-> IF user.value # None
                                      THEN login_user(sess, user.value)
                                      ELSE sess,
                          made |-> {CreatedEntry(row, pin)}]

\* the 401 of a failed login names neither the username nor the PIN; here
\* it says which of the two was wrong
LoginHandler_tellsWhich(tbl, sess, data, at, e) ==
    IF data = NoData
    THEN [resp |-> Resp(400, ErrorBody("No data provided")), session |-> sess]
    ELSE
    LET username == Strip(data.username)
        pin      == Strip(data.pin)
    IN  IF username = << >> \/ pin = << >>
        THEN [resp |-> Resp(400, ErrorBody("Username and PIN are required")),
              session |-> sess]
        ELSE
        LET user == verify_user(tbl, username, pin, at, e)
        IN  IF user.kind = "raise"
            THEN [resp |-> InternalError, session |-> sess]
            ELSE IF user.value = None
            THEN [resp |-> Resp(401,
                        IF HasUsername(tbl, username)
                        THEN ErrorBody("Invalid PIN")
                        ELSE ErrorBody("Unknown username")),
                  session |-> sess]
            ELSE [resp |-> Resp(200, UserBody(user.value.id,
                                              user.value.username)),
                  session |-> login_user(sess, user.value)]

\* a failed login ends the session the caller had
LoginHandler_clearsSession(tbl, sess, data, at, e) ==
    IF data = NoData
    THEN [resp |-> Resp(400, ErrorBody("No data provided")), session |-> sess]
    ELSE
    LET username == Strip(data.username)
        pin      == Strip(data.pin)
    IN  IF username = << >> \/ pin = << >>
        THEN [resp |-> Resp(400, ErrorBody("Username and PIN are required")),
              session |-> sess]
        ELSE
        LET user == verify_user(tbl, username, pin, at, e)
        IN  IF user.kind = "raise"
            THEN [resp |-> InternalError, session |-> sess]
            ELSE IF user.value = None
            THEN [resp |-> Resp(401, ErrorBody("Invalid username or PIN")),
                  session |-> 0]
            ELSE [resp |-> Resp(200, UserBody(user.value.id,
                                              user.value.username)),
                  session |-> login_user(sess, user.value)]

\* login, lines 54-82: the response and the session it leaves
LoginHandler(tbl, sess, data, at, e) ==
    IF data = NoData
    THEN [resp |-> Resp(400, ErrorBody("No data provided")), session |-> sess]
    ELSE
    LET username == Strip(data.username)
        pin      == Strip(data.pin)
    IN  IF username = << >> \/ pin = << >>
        THEN [resp |-> Resp(400, ErrorBody("Username and PIN are required")),
              session |-> sess]
        ELSE
        LET user == verify_user(tbl, username, pin, at, e)
        IN  IF user.kind = "raise"
            THEN [resp |-> InternalError, session |-> sess]
            ELSE IF user.value = None
            THEN [resp |-> Resp(401, ErrorBody("Invalid username or PIN")),
                  session |-> sess]
            ELSE [resp |-> Resp(200, UserBody(user.value.id,
                                              user.value.username)),
                  session |-> login_user(sess, user.value)]

\* the session's user id is taken as it is, without a look at the store
load_user_trustsSession(tbl, sess, at, e) ==
    IF sess = 0 THEN Return(None) ELSE Return(User(sess, << >>))

\* app.py, lines 22-25: current_user, from the session's user id
load_user(tbl, sess, at, e) ==
    IF sess = 0 THEN Return(None) ELSE get_user_by_id(tbl, sess, at, e)

\* logout, lines 85-90, behind login_required
LogoutHandler(tbl, sess, at, e) ==
    LET user == load_user(tbl, sess, at, e)
    IN  IF user.kind = "raise"
        THEN [resp |-> InternalError, session |-> sess,
              stages |-> << "login_required" >>]
        ELSE IF user.value = None
        THEN [resp |-> Unauthorized, session |-> sess,
              stages |-> << "login_required" >>]
        ELSE [resp |-> Resp(200, [success |-> TRUE]),
              session |-> logout_user(sess),
              stages |-> << "login_required", "body" >>]

\* status, lines 93-105
StatusHandler(tbl, sess, at, e) ==
    LET user == load_user(tbl, sess, at, e)
    IN  IF user.kind = "raise"
        THEN [resp |-> InternalError, session |-> sess]
        ELSE IF user.value = None
        THEN [resp |-> Resp(200, [authenticated |-> FALSE]), session |-> sess]
        ELSE [resp |-> Resp(200, [authenticated |-> TRUE,
                                  user |-> [id |-> user.value.id,
                                            username |-> user.value.username]]),
              session |-> sess]

(***************************************************************************)
(* The end-to-end scenario of the spec, followed from the empty store:     *)
(* register(alice123, 4242), register(alice123, another PIN),              *)
(* login(alice123, 4242), login(alice123, 0000).                           *)
(***************************************************************************)
ScenarioNext(n, kind, data, at) ==
    IF at # "none" \/ data = NoData \/ n < 0 THEN -1
    ELSE IF n = 0 /\ kind = "register" /\ data = Body(Alice, Pin4242) THEN 1
    ELSE IF /\ n = 1 /\ kind = "register" /\ data.username = Alice
            /\ data.pin # Pin4242 /\ ValidPin(data.pin) THEN 2
    ELSE IF n = 2 /\ kind = "login" /\ data = Body(Alice, Pin4242) THEN 3
    ELSE IF n = 3 /\ kind = "login" /\ data = Body(Alice, Pin0000) THEN 4
    ELSE -1

(***************************************************************************)
(* The requests of one client, handled one at a time.                      *)
(***************************************************************************)
Register(data, salt, created_at, at, e) ==
    /\ id_seq < MaxId
    /\ \E h \in {RegisterHandler(backend, users, id_seq, session, data, salt,
                                 created_at, at, e)} :
           /\ users' = h.users
           /\ id_seq' = h.id_seq
           /\ session' = h.session
           /\ resp' = h.resp
           /\ created' = IF h.made = {} THEN created
                         ELSE [created EXCEPT ![Strip(data.username)] =
                                  @ \cup h.made]
    /\ req' = [kind |-> "register", data |-> data]
    /\ scen' = ScenarioNext(scen, "register", data, at)
    /\ UNCHANGED << backend, aiVars, threadVars, validateVars, seqVars, genVars >>

Login(data, at, e) ==
    /\ \E h \in {LoginHandler(users, session, data, at, e)} :
           /\ session' = h.session
           /\ resp' = h.resp
    /\ req' = [kind |-> "login", data |-> data]
    /\ scen' = ScenarioNext(scen, "login", data, at)
    /\ UNCHANGED << dbVars, aiVars, threadVars, validateVars, seqVars, genVars >>

Logout(at, e) ==
    /\ \E h \in {LogoutHandler(users, session, at, e)} :
           /\ session' = h.session
           /\ resp' = h.resp
           /\ stages' = h.stages
    /\ req' = [kind |-> "logout", data |-> NoData]
    /\ scen' = -1
    /\ UNCHANGED << dbVars, config, request_counts, now, reply, admitted,
                    limVars,
                    threadVars, validateVars, seqVars, genVars >>

Status(at, e) ==
    /\ \E h \in {StatusHandler(users, session, at, e)} :
           /\ session' = h.session
           /\ resp' = h.resp
    /\ req' = [kind |-> "status", data |-> NoData]
    /\ scen' = -1
    /\ UNCHANGED << dbVars, aiVars, threadVars, validateVars, seqVars, genVars >>

InitRoutes ==
    /\ backend \in Backends
    /\ users = {}
    /\ id_seq = 0
    /\ created = [u \in Usernames |-> {}]
    /\ pc = [t \in Threads |-> "idle"]
    /\ call = [t \in Threads |-> NoCall]
    /\ pending = [t \in Threads |-> NoRow]
    /\ res = [t \in Threads |-> NoResult]
    /\ conn = [t \in Threads |-> "none"]
    /\ ValidateIdle
    /\ SeqIdle
    /\ RoutesIdle
    /\ GenIdle

NextRoutes ==
    \/ \E data \in Bodies, salt \in Salts, created_at \in Times,
          at \in FaultPoints :
            \E e \in ErrorsAt(backend, at) :
                Register(data, salt, created_at, at, e)
    \/ \E data \in Bodies, at \in {"none", "verify"}, e \in StorageErrors :
            Login(data, at, e)
    \/ \E at \in {"none", "verify"}, e \in StorageErrors : Logout(at, e)
    \/ \E at \in {"none", "verify"}, e \in StorageErrors : Status(at, e)

SpecRoutes == InitRoutes /\ [][NextRoutes]_vars

(***************************************************************************)
(* C7: a failed authentication does not tell whether the username exists.  *)
(* In every store state, verify_user / login with an unknown username and  *)
(* verify_user / login with an existing username and a wrong PIN give the  *)
(* same result: None from verify_user, the same 401 and the same body from *)
(* the login route.                                                        *)
(***************************************************************************)
Credentials == {d \in Bodies \ {NoData} :
                    Strip(d.username) # << >> /\ Strip(d.pin) # << >>}

UnknownUser(d) == ~HasUsername(users, Strip(d.username))

WrongPin(d) ==
    /\ HasUsername(users, Strip(d.username))
    /\ \A c \in created[Strip(d.username)] : c.pin # Strip(d.pin)

LoginFailure == Resp(401, ErrorBody("Invalid username or PIN"))

C7_NoEnumeration ==
    /\ \A d1, d2 \in Credentials :
          (UnknownUser(d1) /\ WrongPin(d2)) =>
              \A at \in {"none", "verify"}, e \in StorageErrors :
                  /\ verify_user(users, Strip(d1.username), Strip(d1.pin), at, e)
                        = verify_user(users, Strip(d2.username), Strip(d2.pin),
                                      at, e)
                  /\ LoginHandler(users, session, d1, at, e)
                        = LoginHandler(users, session, d2, at, e)
                  /\ at = "none" =>
                        /\ verify_user(users, Strip(d2.username),
                                       Strip(d2.pin), at, e) = Return(None)
                        /\ LoginHandler(users, session, d2, at, e).resp
                              = LoginFailure
    /\ (/\ req.kind = "login"
        /\ req.data \in Credentials
        /\ resp # InternalError
        /\ UnknownUser(req.data) \/ WrongPin(req.data))
            => resp = LoginFailure

C7_Witness ==
    /\ req.kind = "login"
    /\ req.data \in Credentials
    /\ WrongPin(req.data)
    /\ resp = LoginFailure
    /\ \E d \in Credentials : UnknownUser(d)

(***************************************************************************)
(* C9: from the empty store, register("alice123", "4242"),                 *)
(* register("alice123", another PIN), login("alice123", "4242"),           *)
(* login("alice123", "0000") answer, in this order: success with id 1;     *)
(* AlreadyExists; success with the identity {id 1, username "alice123"};   *)
(* not found.                                                              *)
(***************************************************************************)
C9_Scenario ==
    /\ scen = 1 => resp = Resp(201, UserBody(1, Alice))
    /\ scen = 2 => resp = Resp(409, ErrorBody("Username already exists"))
    /\ scen = 3 => resp = Resp(200, UserBody(1, Alice)) /\ session = 1
    /\ scen = 4 => resp = LoginFailure

C9_Witness ==
    /\ scen = 4
    /\ req = [kind |-> "login", data |-> Body(Alice, Pin0000)]
    /\ resp.status = 401
    /\ Cardinality(users) = 1

(***************************************************************************)
(* OllamaClient._make_request, llm_client.py lines 43-82: the retry loop.  *)
(***************************************************************************)
\* largest max_retries tried
MaxRetries == 4

\* the retry delays tried, in seconds
RetryDelays == {1, 2}

BaseUrl == "http://localhost:11434"

ModelName == "phi3:mini"

TimeoutSecs == 60

\* what one requests.post of lines 49-55 can meet
Outcome(kind, status) == [kind |-> kind, status |-> status]

\* a 200 whose JSON body is the object body
Ok(body) == [kind |-> "ok", status |-> 200, body |-> body]

\* the objects response.json() gives: the generated text in the field
\* "response", with and without whitespace around it, and no such field
ResponseBodies ==
    { [response |-> << " ", "H", "i", ".", "\n" >>, done |-> TRUE],
      [response |-> << "H", "i", "." >>, done |-> TRUE],
      [response |-> << " ", "\n" >>, done |-> TRUE],
      [done |-> TRUE] }

ConnectionError == Outcome("connection_error", 0)

TimeoutError == Outcome("timeout", 0)

Http404 == Outcome("http_error", 404)

Http500 == Outcome("http_error", 500)

OtherError == Outcome("other", 0)

Outcomes ==
    { Ok(body) : body \in ResponseBodies }
        \cup {ConnectionError, TimeoutError, Http404, Http500, OtherError}

\* last_error as lines 58, 63, 73 and 78 set it
ErrText(o) ==
    IF o.kind = "connection_error"
    THEN << "Cannot connect to Ollama at", BaseUrl, ". Is it running?" >>
    ELSE IF o.kind = "timeout"
    THEN << "Request timed out after", ToString(TimeoutSecs), "s" >>
    ELSE IF o.kind = "http_error"
    THEN << "HTTP error:", ToString(o.status) >>
    ELSE << "Unexpected error:" >>

\* every failure backs off linearly
Delay_linear(o, n, d) == d * (n + 1)

\* every failure sleeps the flat retry_delay
Delay_flat(o, n, d) == d

\* the time.sleep of lines 60, 65, 75 and 80 after failed attempt n (from 0)
Delay(o, n, d) == IF o.kind = "connection_error" THEN d * (n + 1) ELSE d

\* every HTTP error status ends the call like a 404
ModelNotFound_anyHttpError(o) == o.kind = "http_error"

\* no response is taken as "model not found"
ModelNotFound_never(o) == FALSE

\* lines 67-68: an HTTPError whose response has status 404
ModelNotFound(o) == o.kind = "http_error" /\ o.status = 404

\* line 69: the error for a 404
ModelMissing ==
    Raise("ValueError",
          << "Model", ModelName, "not found. Run: ollama pull", ModelName >>)

\* the error after the loop without the failure reason
Exhausted_noReason(n, err) ==
    Raise("RuntimeError", [attempts |-> n, last_error |-> << "None" >>])

\* line 82: the error after the loop
Exhausted(n, err) ==
    Raise("RuntimeError", [attempts |-> n, last_error |-> err])

\* an Optional[str] argument: None, or a text
NoText == [some |-> FALSE, text |-> << >>]

Text(t) == [some |-> TRUE, text |-> t]

\* the truth value of an Optional[str]: None and "" are false
Truthy(x) == x.some /\ x.text # << >>

SayHi == << "S", "a", "y", " ", "h", "i", "." >>

BeTerse == << "B", "e", " ", "t", "e", "r", "s", "e", "." >>

\* the prompts and system texts tried
Prompts == {<< >>, << "a" >>, SayHi}

Systems == {NoText, Text(<< >>), Text(<< "\n" >>), Text(BeTerse)}

\* the system text and the prompt joined by one newline
FullPrompt_oneNewline(prompt, system) ==
    IF Truthy(system) THEN system.text \o << "\n" >> \o prompt ELSE prompt

\* lines 108-110: full_prompt
FullPrompt(prompt, system) ==
    IF Truthy(system) THEN system.text \o << "\n", "\n" >> \o prompt
    ELSE prompt

\* lines 112-120, with the default max_tokens and temperature of lines 88-89
Payload(prompt, system) ==
    [model   |-> ModelName,
     prompt  |-> FullPrompt(prompt, system),
     stream  |-> FALSE,
     options |-> [temperature |-> "0.7", num_predict |-> 500]]

\* the field is returned as it is
GenerateReturn_unstripped(result) == Get(result, "response", << >>)

\* an absent field is an error
GenerateReturn_required(result) ==
    IF "response" \in DOMAIN result THEN Strip(result["response"])
    ELSE << "KeyError" >>

\* line 123: what generate returns for the result of _make_request
GenerateReturn(result) == Strip(Get(result, "response", << >>))

\* generate, lines 108-122, up to the loop of _make_request, line 45
GenStart(prompt, system) ==
    /\ gpc = "idle"
    /\ gpc' = "loop"
    /\ gargs' = [prompt |-> prompt, system |-> system]
    /\ payload' = Payload(prompt, system)
    /\ attempt' = 0
    /\ last_error' = << "None" >>
    /\ UNCHANGED << max_retries, retry_delay, outcomes, sleeps, gres, sent,
                    checks, storeVars, validateVars, seqVars, routeVars >>

\* lines 47-80: one pass of the loop up to its sleep; a response ends
\* _make_request (line 55) and generate returns its text (lines 122-123)
GenAttempt(o) ==
    /\ gpc = "loop"
    /\ attempt < max_retries
    /\ outcomes' = Append(outcomes, o)
    /\ sent' = Append(sent, payload)
    /\ IF o.kind = "ok"
       THEN /\ gpc' = "success"
            /\ gres' = Return(GenerateReturn(o.body))
            /\ UNCHANGED << attempt, last_error >>
       ELSE IF ModelNotFound(o)
       THEN /\ gpc' = "model_missing"
            /\ gres' = ModelMissing
            /\ UNCHANGED << attempt, last_error >>
       ELSE /\ last_error' = ErrText(o)
            /\ IF attempt < max_retries - 1
               THEN gpc' = "sleeping" /\ attempt' = attempt
               ELSE gpc' = "loop" /\ attempt' = attempt + 1
            /\ gres' = gres
    /\ UNCHANGED << max_retries, retry_delay, sleeps, gargs, payload,
                    checks, storeVars, validateVars, seqVars, routeVars >>

\* the time.sleep of the except clause, then the next pass
GenSleep ==
    /\ gpc = "sleeping"
    /\ sleeps' = Append(sleeps,
                        Delay(outcomes[Len(outcomes)], attempt, retry_delay))
    /\ attempt' = attempt + 1
    /\ gpc' = "loop"
    /\ UNCHANGED << max_retries, retry_delay, last_error, outcomes, gres,
                    gargs, payload, sent, checks,
                    storeVars, validateVars, seqVars, routeVars >>

\* line 82: the loop is over
GenExhaust ==
    /\ gpc = "loop"
    /\ attempt >= max_retries
    /\ gpc' = "exhausted"
    /\ gres' = Exhausted(max_retries, last_error)
    /\ UNCHANGED << max_retries, retry_delay, attempt, last_error, outcomes,
                    sleeps, gargs, payload, sent, checks,
                    storeVars, validateVars, seqVars, routeVars >>

InitGenerate ==
    /\ StoreIdle
    /\ ValidateIdle
    /\ SeqIdle
    /\ RoutesIdle
    /\ max_retries \in 0..MaxRetries
    /\ retry_delay \in RetryDelays
    /\ gpc = "idle"
    /\ attempt = 0
    /\ last_error = << "None" >>
    /\ outcomes = << >>
    /\ sleeps = << >>
    /\ gres = NoResult
    /\ gargs = NoArgs
    /\ payload = NoPayload
    /\ sent = << >>
    /\ checks = << >>

NextGenerate ==
    \/ \E prompt \in Prompts, system \in Systems : GenStart(prompt, system)
    \/ \E o \in Outcomes : GenAttempt(o)
    \/ GenSleep
    \/ GenExhaust

SpecGenerate == InitGenerate /\ [][NextGenerate]_vars

\* requests.post returns or raises within self.timeout (line 52) and
\* time.sleep returns, so a call that can take a step takes one
SpecGenerateFair == SpecGenerate /\ WF_vars(NextGenerate)

(***************************************************************************)
(* C10: against an endpoint that refuses every connection, one call makes  *)
(* exactly max_retries attempts, sleeps retry_delay * n after failed       *)
(* attempt n for n = 1..max_retries-1 (strictly increasing delays, none    *)
(* after the last attempt), and then fails with the RuntimeError that      *)
(* carries the attempt count max_retries.                                  *)
(***************************************************************************)
AllRefused == \A i \in DOMAIN outcomes : outcomes[i] = ConnectionError

LinearDelays(k) == [n \in 1..k |-> retry_delay * n]

C10_RefusedRetries ==
    AllRefused =>
        /\ gpc \notin {"success", "model_missing"}
        /\ Len(outcomes) <= max_retries
        /\ sleeps = LinearDelays(Len(sleeps))
        /\ Len(sleeps) \in {Len(outcomes) - 1, Len(outcomes)}
        /\ gpc = "exhausted" =>
              /\ Len(outcomes) = max_retries
              /\ sleeps = LinearDelays(max_retries - 1)
              /\ \A i, j \in DOMAIN sleeps : i < j => sleeps[i] < sleeps[j]
              /\ gres = Exhausted(max_retries,
                                  IF max_retries = 0 THEN << "None" >>
                                  ELSE ErrText(ConnectionError))

C10_Witness ==
    /\ AllRefused
    /\ gpc = "exhausted"
    /\ max_retries = 3
    /\ Len(outcomes) = 3
    /\ sleeps = << retry_delay, 2 * retry_delay >>
    /\ gres.msg.attempts = 3

(***************************************************************************)
(* C11: when any attempt of the call receives HTTP 404, the call fails at  *)
(* once with the ValueError that names the configured model: that attempt  *)
(* is the last request sent, and no delay is slept after it, whatever the  *)
(* attempt number and however many attempts remain.                        *)
(***************************************************************************)
C11_ModelMissingAtOnce ==
    \A i \in DOMAIN outcomes :
        outcomes[i] = Http404 =>
            /\ i = Len(outcomes)
            /\ gpc = "model_missing"
            /\ gres = ModelMissing
            /\ gres.exc = "ValueError"
            /\ \E k \in DOMAIN gres.msg : gres.msg[k] = ModelName
            /\ Len(sleeps) = i - 1
            /\ ~ENABLED NextGenerate

C11_Witness ==
    /\ max_retries = 4
    /\ outcomes = << ConnectionError, TimeoutError, Http404 >>
    /\ gpc = "model_missing"
    /\ gres = ModelMissing
    /\ Len(sleeps) = 2

(***************************************************************************)
(* C12: after all attempts of the call have failed with retryable errors,  *)
(* possibly of different kinds, the call fails with one RuntimeError that  *)
(* embeds the failure reason of the last attempt, not of an earlier one,   *)
(* and the attempt count max_retries.                                      *)
(***************************************************************************)
Retryable(o) == o.kind # "ok" /\ ~ModelNotFound(o)

AllRetryable == \A i \in DOMAIN outcomes : Retryable(outcomes[i])

C12_ExhaustedLastReason ==
    /\ (gpc = "exhausted" /\ Len(outcomes) >= 1) =>
          /\ AllRetryable
          /\ Len(outcomes) = max_retries
          /\ gres.kind = "raise"
          /\ gres.exc = "RuntimeError"
          /\ gres.msg.attempts = max_retries
          /\ gres.msg.last_error = ErrText(outcomes[Len(outcomes)])
          /\ \A i \in DOMAIN outcomes :
                outcomes[i].kind # outcomes[Len(outcomes)].kind =>
                    gres.msg.last_error # ErrText(outcomes[i])
    /\ (AllRetryable /\ Len(outcomes) = max_retries /\ max_retries >= 1) =>
          \/ gpc = "exhausted"
          \/ gpc = "loop" /\ attempt = max_retries /\ ENABLED GenExhaust

C12_Witness ==
    /\ gpc = "exhausted"
    /\ max_retries = 3
    /\ outcomes = << ConnectionError, TimeoutError, Http500 >>
    /\ gres.msg = [attempts |-> 3, last_error |-> << "HTTP error:", "500" >>]

(***************************************************************************)
(* C13: provided every request returns or times out, every call eventually *)
(* reaches exactly one of Success, FatalModelMissing and Exhausted after   *)
(* at most max_retries attempts, moves only along                          *)
(* Idle -> Attempting(n) -> {Success | Retryable -> Attempting(n+1) |      *)
(* FatalModelMissing | Exhausted}, and sends no request once terminal.     *)
(***************************************************************************)
GenTerminal == gpc \in {"success", "model_missing", "exhausted"}

\* the state of the call in the terms of the state machine: Attempting(n)
\* lasts from the n-th pass of the loop to the end of its except clause;
\* a loop that is over before any pass was never Attempting
GenState ==
    IF gpc = "idle" THEN [st |-> "Idle", n |-> 0]
    ELSE IF gpc = "loop" /\ attempt < max_retries
    THEN [st |-> "Attempting", n |-> attempt + 1]
    ELSE IF gpc = "loop" /\ outcomes # << >>
    THEN [st |-> "Attempting", n |-> attempt]
    ELSE IF gpc = "loop" THEN [st |-> "Idle", n |-> 0]
    ELSE IF gpc = "sleeping" THEN [st |-> "Retryable", n |-> attempt + 1]
    ELSE IF gpc = "success" THEN [st |-> "Success", n |-> 0]
    ELSE IF gpc = "model_missing" THEN [st |-> "FatalModelMissing", n |-> 0]
    ELSE [st |-> "Exhausted", n |-> 0]

Along(s, t) ==
    \/ s = t
    \/ s.st = "Idle" /\ t = [st |-> "Attempting", n |-> 1]
    \/ /\ s.st = "Attempting"
       /\ \/ t.st \in {"Success", "FatalModelMissing", "Exhausted"}
          \/ t = [st |-> "Retryable", n |-> s.n]
    \/ s.st = "Retryable" /\ t = [st |-> "Attempting", n |-> s.n + 1]

C13_StateMachine ==
    /\ <>GenTerminal
    /\ [](Len(outcomes) <= max_retries)
    /\ [][Along(GenState, GenState')]_vars
    /\ [][GenTerminal => (gpc' = gpc /\ outcomes' = outcomes)]_vars

\* the same for the calls that enter the loop
StateMachineWithAttempts ==
    /\ <>GenTerminal
    /\ [](Len(outcomes) <= max_retries)
    /\ [][max_retries >= 1 => Along(GenState, GenState')]_vars
    /\ [][GenTerminal => (gpc' = gpc /\ outcomes' = outcomes)]_vars

(***************************************************************************)
(* C14: every request of a call carries one and the same body, whose       *)
(* prompt is the system text, a blank line, then the prompt when a system  *)
(* text is present, and exactly the prompt when it is absent (None, or the *)
(* empty text); with system "Be terse." and prompt "Say hi." the body's    *)
(* prompt is "Be terse.\n\nSay hi.".                                       *)
(***************************************************************************)
BeTerseSayHi ==
    << "B", "e", " ", "t", "e", "r", "s", "e", ".", "\n", "\n",
       "S", "a", "y", " ", "h", "i", "." >>

C14_CombinedPrompt ==
    /\ Len(sent) = Len(outcomes)
    /\ \A i \in DOMAIN sent :
          /\ sent[i] = payload
          /\ DOMAIN sent[i] = {"model", "prompt", "stream", "options"}
          /\ sent[i].model = ModelName
          /\ IF gargs.system.some /\ gargs.system.text # << >>
             THEN LET p == sent[i].prompt
                      n == Len(gargs.system.text)
                  IN  /\ Len(p) = n + 2 + Len(gargs.prompt)
                      /\ SubSeq(p, 1, n) = gargs.system.text
                      /\ p[n + 1] = "\n" /\ p[n + 2] = "\n"
                      /\ SubSeq(p, n + 3, Len(p)) = gargs.prompt
             ELSE sent[i].prompt = gargs.prompt
          /\ (gargs.system = Text(BeTerse) /\ gargs.prompt = SayHi) =>
                sent[i].prompt = BeTerseSayHi

C14_Witness ==
    /\ gargs = [prompt |-> SayHi, system |-> Text(BeTerse)]
    /\ Len(sent) = 2
    /\ sent[2].prompt = BeTerseSayHi
    /\ gpc = "success"

(***************************************************************************)
(* C15: when create_user, verify_user or get_user_by_id has returned or    *)
(* raised, on every exit path including a failure of the query or insert,  *)
(* the connection the call opened has been closed.                         *)
(***************************************************************************)
C15_ConnectionClosed ==
    \A t \in Threads : pc[t] = "ret" => conn[t] # "open"

\* the same for create_user alone
CreateUserClosesConnection ==
    \A t \in Threads :
        (pc[t] = "ret" /\ call[t].op = "create_user") => conn[t] # "open"

(***************************************************************************)
(* C16: create_user returns None, and the register route answers 409,      *)
(* only for a uniqueness conflict on the username; a validation failure is *)
(* the ValueError of the format checks (400); every storage failure that   *)
(* is not a uniqueness conflict on the username is raised (500), never     *)
(* reported as None.                                                       *)
(***************************************************************************)
TellsApart(errs(_)) ==
    /\ \A data \in Credentials, salt \in Salts, created_at \in Times,
          at \in FaultPoints :
          \A e \in errs(at) :
            LET username == Strip(data.username)
                pin == Strip(data.pin)
                valid == Validate(username, pin).kind # "raise"
                c == create_user(backend, users, id_seq, username, pin, salt,
                                 created_at, at, e)
                h == RegisterHandler(backend, users, id_seq, session, data,
                                     salt, created_at, at, e)
            IN  /\ (c.res = Return(None) \/ h.resp.status = 409) =>
                      (valid /\ HasUsername(users, username))
                /\ ~valid =>
                      /\ c.res = Validate(username, pin)
                      /\ c.res.exc = "ValueError"
                      /\ h.resp = Resp(400, ErrorBody(c.res.msg))
                /\ (/\ valid
                    /\ at \in {"insert", "commit"}
                    /\ ~HasUsername(users, username)) =>
                      /\ c.res.kind = "raise"
                      /\ c.res.exc # "ValueError"
                      /\ h.resp = Resp(500, ErrorBody("Registration failed"))

AnyError(at) == ErrorsAt(backend, at)

C16_AlreadyExistsOnlyOnConflict ==
    /\ (req.kind = "register" /\ resp.status = 409) =>
          HasUsername(users, Strip(req.data.username))
    /\ TellsApart(AnyError)

\* the same when no error but the username conflict speaks of uniqueness
NoUniquenessError(at) == StorageErrors

TellsApartWithoutUniquenessErrors == TellsApart(NoUniquenessError)

(***************************************************************************)
(* C17: when a registration request (create_user and the register route    *)
(* around it) fails with a storage failure, the set of user records after  *)
(* the request equals the set before it.                                   *)
(***************************************************************************)
RegistrationFailed == Resp(500, ErrorBody("Registration failed"))

C17_NoPartialState ==
    [][(req'.kind = "register" /\ resp' = RegistrationFailed) =>
            users' = users]_vars

\* the same for create_user alone: a call that raises leaves the table as
\* it was
CreateUserLeavesNoPartialState ==
    \A data \in Credentials, salt \in Salts, created_at \in Times,
       at \in FaultPoints :
        \A e \in ErrorsAt(backend, at) :
            LET c == create_user(backend, users, id_seq, Strip(data.username),
                                 Strip(data.pin), salt, created_at, at, e)
            IN  (c.res.kind = "raise" \/ c.res = Return(None)) =>
                    c.users = users

(***************************************************************************)
(* The AI routes, routes/ai.py: prompt, analyze and patterns, each behind  *)
(* login_required and then rate_limit.                                     *)
(***************************************************************************)
\* config.py line 33, as configured for the runs
MAX_REQUESTS_PER_HOUR == 2

\* line 26: the window of the rate limiter, in seconds
Hour == 3600

\* the clock moves in steps of half an hour, up to MaxTicks of them
TickSecs == Hour \div 2

MaxTicks == 2

\* the limit is passed by one: a request is refused only above it
rate_limit_offByOne(counts, cfg, ip, t) ==
    IF ~cfg.RATE_LIMIT_ENABLED
    THEN [admit |-> TRUE, counts |-> counts, recorded |-> FALSE]
    ELSE
    LET recent  == SelectSeq(counts[ip], LAMBDA x : x > t - Hour)
        cleaned == [counts EXCEPT ![ip] = recent]
    IN  IF Len(recent) > MAX_REQUESTS_PER_HOUR
        THEN [admit |-> FALSE, counts |-> cleaned, recorded |-> FALSE]
        ELSE [admit |-> TRUE,
              counts |-> [cleaned EXCEPT ![ip] = Append(recent, t)],
              recorded |-> TRUE]

\* lines 20-41: whether the request is admitted, request_counts after, and
\* whether line 39 recorded the request
rate_limit(counts, cfg, ip, t) ==
    IF ~cfg.RATE_LIMIT_ENABLED
    THEN [admit |-> TRUE, counts |-> counts, recorded |-> FALSE]
    ELSE
    LET recent  == SelectSeq(counts[ip], LAMBDA x : x > t - Hour)
        cleaned == [counts EXCEPT ![ip] = recent]
    IN  IF Len(recent) >= MAX_REQUESTS_PER_HOUR
        THEN [admit |-> FALSE, counts |-> cleaned, recorded |-> FALSE]
        ELSE [admit |-> TRUE,
              counts |-> [cleaned EXCEPT ![ip] = Append(recent, t)],
              recorded |-> TRUE]

RateLimited ==
    Resp(429, ErrorBody("Rate limit exceeded. Please try again later."))

\* what client.messages.create gives: a message, or an error of the SDK
Message(text) == Return([text |-> text, usage |-> [input_tokens |-> 10,
                                                   output_tokens |-> 20]])

ReplyText == << "Mocked", "AI", "response" >>

ReplyJson == << "{", "reflection", ":", "thoughtful", "}" >>

ReplyNumber == << "42" >>

\* a reply cut off inside its JSON object
ReplyTruncated == << "{", "reflection", ":" >>

ApiConnectionError == Raise("APIConnectionError", "Connection error.")

ApiTimeoutError == Raise("APITimeoutError", "Request timed out.")

ApiStatusError == Raise("InternalServerError", "Error code: 500")

LlmOutcomes ==
    { Message(ReplyText), Message(ReplyJson), Message(ReplyNumber),
      Message(ReplyTruncated), ApiConnectionError, ApiTimeoutError, ApiStatusError }

\* lines 45-50
get_anthropic_client(cfg) ==
    IF ~cfg.ANTHROPIC_API_KEY
    THEN Raise("ValueError", "ANTHROPIC_API_KEY not configured")
    ELSE Return("Anthropic")

\* lines 96-104, 167-175, 255-263: the client, then the call
LlmCall(cfg, llm) ==
    IF get_anthropic_client(cfg).kind = "raise"
    THEN get_anthropic_client(cfg)
    ELSE llm

\* every text is taken as a JSON object
JsonLoads_lenient(text) == Return([object |-> text])

\* json.loads on a text of tokens: an object of one pair, the empty
\* object, or a number; anything else is a JSONDecodeError
JsonLoads(text) ==
    IF Len(text) = 5 /\ text[1] = "{" /\ text[3] = ":" /\ text[5] = "}"
    THEN Return([object |-> << text[2], text[4] >>])
    ELSE IF text = << "{", "}" >> THEN Return([object |-> << >>])
    ELSE IF Len(text) = 1 /\ text[1] \in {"0", "7", "42"}
    THEN Return([number |-> text[1]])
    ELSE Raise("JSONDecodeError", "Expecting value")

FailedMessage(kind) ==
    IF kind = "prompt" THEN "Failed to generate prompt"
    ELSE IF kind = "analyze" THEN "Failed to analyze entry"
    ELSE "Failed to analyze patterns"

\* json.JSONDecodeError is a subclass of ValueError
IsValueError(exc) == exc.exc \in {"ValueError", "JSONDecodeError"}

\* lines 116-120, 198-202, 285-289: str(e) for a ValueError, the route's
\* own message for any other exception
ExceptClauses(kind, exc) ==
    IF IsValueError(exc)
    THEN Resp(500, ErrorBody(exc.msg))
    ELSE Resp(500, ErrorBody(FailedMessage(kind)))

\* a JSON body that is null: request.get_json() gives None
NullData == [null |-> TRUE]

\* data.get of None
NoneHasNoGet ==
    Raise("AttributeError", "'NoneType' object has no attribute 'get'")

ContentShort == << " " >> \o Repeat("a", 9) \o << " " >>

ContentLong == Repeat("a", 10)

Entry(content) == [content |-> content, mood |-> 3]

\* the requests tried, per route
AiRequests ==
    ({"prompt"} \X {NullData, [mood |-> 3]})
        \cup ({"analyze"} \X {NoData, [content |-> ContentShort],
                              [content |-> ContentLong]})
        \cup ({"patterns"} \X
                {NullData,
                 [entries |-> << Entry(ContentLong), Entry(ContentLong) >>],
                 [entries |-> << Entry(ContentLong), Entry(ContentLong),
                                 Entry(ContentShort) >>]})

Usage(m) == [input_tokens |-> m.usage.input_tokens,
             output_tokens |-> m.usage.output_tokens]

\* get_prompt, lines 67-120: the response, and whether the LLM was called
get_prompt(cfg, data, llm) ==
    IF data = NullData
    THEN [resp |-> ExceptClauses("prompt", NoneHasNoGet), llm |-> FALSE]
    ELSE
    LET m == LlmCall(cfg, llm)
    IN  IF m.kind = "raise"
        THEN [resp |-> ExceptClauses("prompt", m),
              llm |-> cfg.ANTHROPIC_API_KEY]
        ELSE [resp |-> Resp(200, [prompt |-> m.value.text,
                                  usage |-> Usage(m.value)]),
              llm |-> TRUE]

\* the content is measured as it came, blanks included
TooShort_untrimmed(content) == content = << >> \/ Len(content) < 10

\* line 141: not content or len(content.strip()) < 10
TooShort(content) == content = << >> \/ Len(Strip(content)) < 10

\* analyze_entry, lines 136-202
analyze_entry(cfg, data, llm) ==
    IF data = NullData
    THEN [resp |-> ExceptClauses("analyze", NoneHasNoGet), llm |-> FALSE]
    ELSE IF TooShort(Get(data, "content", << >>))
    THEN [resp |-> Resp(400, ErrorBody("Entry content too short for analysis")),
          llm |-> FALSE]
    ELSE
    LET m == LlmCall(cfg, llm)
    IN  IF m.kind = "raise"
        THEN [resp |-> ExceptClauses("analyze", m),
              llm |-> cfg.ANTHROPIC_API_KEY]
        ELSE
        LET parsed == JsonLoads(m.value.text)
            analysis ==
                IF parsed.kind = "raise"
                THEN [reflection |-> m.value.text, themes |-> << >>,
                      follow_up |-> "", crisis_detected |-> FALSE]
                ELSE parsed.value
        IN  [resp |-> Resp(200, [analysis |-> analysis,
                                 usage |-> Usage(m.value)]),
             llm |-> TRUE]

\* analyze_patterns, lines 220-289
analyze_patterns(cfg, data, llm) ==
    IF data = NullData
    THEN [resp |-> ExceptClauses("patterns", NoneHasNoGet), llm |-> FALSE]
    ELSE IF Len(Get(data, "entries", << >>)) < 3
    THEN [resp |-> Resp(400, ErrorBody(
                        "Need at least 3 entries for pattern analysis")),
          llm |-> FALSE]
    ELSE
    LET m == LlmCall(cfg, llm)
    IN  IF m.kind = "raise"
        THEN [resp |-> ExceptClauses("patterns", m),
              llm |-> cfg.ANTHROPIC_API_KEY]
        ELSE
        LET parsed == JsonLoads(m.value.text)
            patterns ==
                IF parsed.kind = "raise"
                THEN [mood_trend |-> "Unable to determine", themes |-> << >>,
                      positive_patterns |-> << >>, suggestions |-> << >>]
                ELSE parsed.value
        IN  [resp |-> Resp(200, [patterns |-> patterns,
                                 usage |-> Usage(m.value)]),
             llm |-> TRUE]

RouteBody(kind, cfg, data, llm) ==
    IF kind = "prompt" THEN get_prompt(cfg, data, llm)
    ELSE IF kind = "analyze" THEN analyze_entry(cfg, data, llm)
    ELSE analyze_patterns(cfg, data, llm)

\* the decorators the other way round: rate_limit first, then login_required
AiHandler_limiterFirst(kind, tbl, sess, counts, cfg, t, ip, data, llm, at, e) ==
    LET rl == rate_limit(counts, cfg, ip, t)
    IN  IF ~rl.admit
        THEN [resp |-> RateLimited, counts |-> rl.counts,
              recorded |-> FALSE, stages |-> << "rate_limit" >>]
        ELSE
        LET user == load_user(tbl, sess, at, e)
        IN  IF user.kind = "raise"
            THEN [resp |-> InternalError, counts |-> rl.counts,
                  recorded |-> rl.recorded,
                  stages |-> << "rate_limit", "login_required" >>]
            ELSE IF user.value = None
            THEN [resp |-> Unauthorized, counts |-> rl.counts,
                  recorded |-> rl.recorded,
                  stages |-> << "rate_limit", "login_required" >>]
            ELSE
            LET b == RouteBody(kind, cfg, data, llm)
            IN  [resp |-> b.resp, counts |-> rl.counts,
                 recorded |-> rl.recorded,
                 stages |-> << "rate_limit", "login_required", "body" >>
                            \o (IF b.llm THEN << "llm" >> ELSE << >>)]

\* a request to a route decorated with login_required and rate_limit,
\* lines 53-56, 123-126, 205-208: the response, request_counts after, and
\* what ran
AiHandler(kind, tbl, sess, counts, cfg, t, ip, data, llm, at, e) ==
    LET user == load_user(tbl, sess, at, e)
    IN  IF user.kind = "raise"
        THEN [resp |-> InternalError, counts |-> counts, recorded |-> FALSE,
              stages |-> << "login_required" >>]
        ELSE IF user.value = None
        THEN [resp |-> Unauthorized, counts |-> counts, recorded |-> FALSE,
              stages |-> << "login_required" >>]
        ELSE
        LET rl == rate_limit(counts, cfg, ip, t)
        IN  IF ~rl.admit
            THEN [resp |-> RateLimited, counts |-> rl.counts,
                  recorded |-> FALSE,
                  stages |-> << "login_required", "rate_limit" >>]
            ELSE
            LET b == RouteBody(kind, cfg, data, llm)
            IN  [resp |-> b.resp, counts |-> rl.counts,
                 recorded |-> rl.recorded,
                 stages |-> << "login_required", "rate_limit", "body" >>
                            \o (IF b.llm THEN << "llm" >> ELSE << >>)]

\* a request to /api/ai/prompt, /analyze or /patterns
AiRequest(kind, data, ip, llm, at, e) ==
    /\ \E h \in {AiHandler(kind, users, session, request_counts, config, now,
                           ip, data, llm, at, e)} :
           /\ resp' = h.resp
           /\ request_counts' = h.counts
           /\ stages' = h.stages
           /\ reply' = IF \E i \in DOMAIN h.stages : h.stages[i] = "llm"
                       THEN llm ELSE NoResult
           /\ admitted' = IF h.recorded
                          THEN [admitted EXCEPT ![ip] = Append(@, now)]
                          ELSE admitted
    /\ req' = [kind |-> kind, data |-> data, ip |-> ip]
    /\ scen' = -1
    /\ UNCHANGED << dbVars, session, config, now, limVars,
                    threadVars, validateVars, seqVars, genVars >>

\* time passes
Tick ==
    /\ now < MaxTicks * TickSecs
    /\ now' = now + TickSecs
    /\ UNCHANGED << dbVars, session, req, resp, scen, config, request_counts,
                    stages, reply, admitted, limVars,
                    threadVars, validateVars, seqVars, genVars >>

\* the store loses the rows of the users table from outside the program
\* (the SQLite file is replaced, the table is emptied by an operator); no
\* operation of the program deletes a row
StoreLosesUsers ==
    /\ users # {}
    /\ users' = {}
    /\ UNCHANGED << backend, id_seq, created, routeVars,
                    threadVars, validateVars, seqVars, genVars >>

AliceRow == NewRow(0, Alice, Pin4242, << "s" >>, "2024-01-01T00:00:00")

\* the store after alice123 has registered with PIN 4242, no session, any
\* configuration
InitAI ==
    /\ backend = "sqlite"
    /\ users = {AliceRow}
    /\ id_seq = 1
    /\ created = [u \in Usernames |->
                    IF u = Alice THEN {CreatedEntry(AliceRow, Pin4242)}
                    ELSE {}]
    /\ pc = [t \in Threads |-> "idle"]
    /\ call = [t \in Threads |-> NoCall]
    /\ pending = [t \in Threads |-> NoRow]
    /\ res = [t \in Threads |-> NoResult]
    /\ conn = [t \in Threads |-> "none"]
    /\ ValidateIdle
    /\ SeqIdle
    /\ session = 0
    /\ req = NoRequest
    /\ resp = NoResponse
    /\ scen = -1
    /\ config \in [RATE_LIMIT_ENABLED : BOOLEAN, ANTHROPIC_API_KEY : BOOLEAN]
    /\ request_counts = [ip \in ClientIps |-> << >>]
    /\ now = 0
    /\ stages = << >>
    /\ reply = NoResult
    /\ admitted = [ip \in ClientIps |-> << >>]
    /\ LimiterIdle
    /\ GenIdle

\* whether the request gets as far as client.messages.create (lines 97,
\* 168, 256), which no reply of the model has a part in
CallsLlm(kind, data, ip, at, e) ==
    LET h == AiHandler(kind, users, session, request_counts, config, now,
                       ip, data, Message(ReplyText), at, e)
    IN  \E i \in DOMAIN h.stages : h.stages[i] = "llm"

\* the model gives a reply to the requests that call it, and none to the
\* others
RepliesTo(kind, data, ip, at, e) ==
    IF CallsLlm(kind, data, ip, at, e) THEN LlmOutcomes ELSE {NoResult}

NextAI ==
    \/ \E r \in AiRequests, ip \in ClientIps,
          at \in {"none", "verify"}, e \in StorageErrors :
            \E llm \in RepliesTo(r[1], r[2], ip, at, e) :
                AiRequest(r[1], r[2], ip, llm, at, e)
    \/ \E data \in {Body(Alice, Pin4242), Body(Alice, Pin0000)},
          e \in StorageErrors : Login(data, "none", e)
    \/ \E at \in {"none", "verify"}, e \in StorageErrors : Logout(at, e)
    \/ Tick
    \/ StoreLosesUsers

SpecAI == InitAI /\ [][NextAI]_vars

(***************************************************************************)
(* C18: a request that carries no session, or whose session refers to a    *)
(* user id no longer in the store, is resolved as unauthenticated, and     *)
(* every protected operation (prompt, analyze, patterns, logout) answers   *)
(* 401 'Authentication required' without running its handler body: only    *)
(* login_required runs, and the session, the store and the rate limiter's  *)
(* record stay as they were.                                               *)
(***************************************************************************)
Protected == {"prompt", "analyze", "patterns", "logout"}

NoSuchUser == \A row \in users : row.id # session

\* a step that handles a request to a protected route; the steps of the
\* clock and of the store leave req as it was
ProtectedRequestStep ==
    /\ req'.kind \in Protected
    /\ now' = now
    /\ users' = users

C18_Unauthenticated ==
    [][(/\ ProtectedRequestStep
        /\ session = 0 \/ NoSuchUser
        /\ resp' # InternalError) =>
            /\ resp' = Unauthorized
            /\ resp'.status = 401
            /\ resp'.body = [error |-> "Authentication required"]
            /\ stages' = << "login_required" >>
            /\ session' = session
            /\ request_counts' = request_counts]_vars

C18_Witness ==
    /\ req.kind = "analyze"
    /\ req.data = [content |-> ContentLong]
    /\ session = 1
    /\ users = {}
    /\ resp = Unauthorized
    /\ stages = << "login_required" >>

(***************************************************************************)
(* C19: when the LLM call behind a prompt, analyze or patterns request     *)
(* fails, whatever the class of the failure, the response carries the      *)
(* route's generic message and never the text of the underlying error.     *)
(***************************************************************************)
AiKinds == {"prompt", "analyze", "patterns"}

\* the last request ran a route's body and the body ended in an error
BodyFailed ==
    /\ req.kind \in AiKinds
    /\ \E i \in DOMAIN stages : stages[i] = "body"
    /\ resp.status = 500

C19_GenericLlmFailure ==
    BodyFailed =>
        /\ resp.body = [error |-> FailedMessage(req.kind)]
        /\ \A llm \in LlmOutcomes :
              LlmCall(config, llm).kind = "raise" =>
                  resp.body.error # LlmCall(config, llm).msg

\* the same when the API key is configured, so that only the call to the
\* API can fail
GenericWhenKeyConfigured ==
    (config.ANTHROPIC_API_KEY /\ BodyFailed) =>
        resp.body = [error |-> FailedMessage(req.kind)]

(***************************************************************************)
(* OllamaClient.check_health, llm_client.py lines 125-134.                 *)
(***************************************************************************)
\* line 130: the timeout of the probe, in seconds
HealthTimeout == 5

\* calls of check_health followed
MaxChecks == 2

\* what GET {base_url}/api/tags can meet: a response with a status after
\* some seconds, a refused connection, or any other exception
Probe(kind, status, latency) ==
    [kind |-> kind, status |-> status, latency |-> latency]

Probes ==
    { Probe("response", st, l) : st \in {200, 204, 404, 500},
                                 l \in {0, 4, 5, 6} }
        \cup { Probe("connection_error", 0, 0), Probe("other", 0, 0) }

\* requests.get with timeout, lines 128-131
RequestsGet(o, timeout) ==
    IF o.kind = "connection_error"
    THEN Raise("ConnectionError", "Connection refused")
    ELSE IF o.kind = "other"
    THEN Raise("Exception", "other")
    ELSE IF o.latency >= timeout
    THEN Raise("Timeout", "Read timed out.")
    ELSE Return([status_code |-> o.status])

\* any response in time counts as healthy
check_health_anyResponse(o) ==
    RequestsGet(o, HealthTimeout).kind = "return"

\* lines 127-134: the result, True or False
check_health(o) ==
    LET response == RequestsGet(o, HealthTimeout)
    IN  IF response.kind = "raise" THEN FALSE
        ELSE response.value.status_code = 200

CheckHealth(o) ==
    /\ Len(checks) < MaxChecks
    /\ checks' = Append(checks, [probe |-> o,
                                 result |-> Return(check_health(o))])
    /\ UNCHANGED << max_retries, retry_delay, gpc, attempt, last_error,
                    outcomes, sleeps, gres, gargs, payload, sent,
                    storeVars, validateVars, seqVars, routeVars >>

InitHealth ==
    StoreIdle /\ ValidateIdle /\ SeqIdle /\ RoutesIdle /\ GenIdle

NextHealth == \E o \in Probes : CheckHealth(o)

SpecHealth == InitHealth /\ [][NextHealth]_vars

(***************************************************************************)
(* C20: check_health returns True exactly when the status endpoint answers *)
(* HTTP 200 within the 5-second timeout, and returns False, never raising, *)
(* for every other outcome: a refused connection, a timeout, any other     *)
(* status, any other exception.                                            *)
(***************************************************************************)
C20_CheckHealth ==
    \A i \in DOMAIN checks :
        LET c == checks[i]
        IN  /\ c.result.kind = "return"
            /\ c.result.value \in BOOLEAN
            /\ c.result.value <=>
                  /\ c.probe.kind = "response"
                  /\ c.probe.status = 200
                  /\ c.probe.latency < 5

C20_Witness ==
    /\ Len(checks) = 2
    /\ checks[1] = [probe |-> Probe("response", 200, 6),
                    result |-> Return(FALSE)]
    /\ checks[2] = [probe |-> Probe("response", 200, 4),
                    result |-> Return(TRUE)]

(***************************************************************************)
(* The store on each backend, one call at a time: two databases, one per   *)
(* backend, are given the same calls.  A database starts without the users *)
(* table; init_auth_db, lines 78-106, creates it.                          *)
(***************************************************************************)
\* the error of a statement on a database without the users table
NoSuchTable(b) ==
    IF b = "sqlite"
    THEN Raise("OperationalError", << "no", "such", "table:", "users" >>)
    ELSE Raise("UndefinedTable",
               << "relation", "users", "does", "not", "exist" >>)

\* DROP TABLE, then CREATE TABLE
init_auth_db_recreates(st, at, e) ==
    IF at # "none" THEN [res |-> e, store |-> st]
    ELSE [res |-> Return(None), store |-> [NoStore EXCEPT !.schema = TRUE]]

\* init_auth_db, lines 78-106: CREATE TABLE IF NOT EXISTS and commit; at
\* says whether the statement fails with e
init_auth_db(st, at, e) ==
    IF at # "none" THEN [res |-> e, store |-> st]
    ELSE IF st.schema THEN [res |-> Return(None), store |-> st]
    ELSE [res |-> Return(None), store |-> [NoStore EXCEPT !.schema = TRUE]]

\* create_user on database st of backend b
CreateUserOn(b, st, username, pin, salt, created_at, at, e) ==
    IF st.schema
    THEN LET c == create_user(b, st.users, st.id_seq, username, pin, salt,
                              created_at, at, e)
         IN  [res |-> c.res,
              store |-> [st EXCEPT !.users = c.users, !.id_seq = c.id_seq]]
    ELSE LET v == Validate(username, pin)
         IN  [res |-> IF v.kind = "raise" THEN v
                      ELSE ExceptHandler(NoSuchTable(b)),
              store |-> st]

\* verify_user on database st of backend b
VerifyUserOn(b, st, username, pin, at, e) ==
    [res |-> IF st.schema THEN verify_user(st.users, username, pin, at, e)
             ELSE NoSuchTable(b),
     store |-> st]

\* get_user_by_id on database st of backend b
GetUserByIdOn(b, st, user_id, at, e) ==
    [res |-> IF st.schema THEN get_user_by_id(st.users, user_id, at, e)
             ELSE NoSuchTable(b),
     store |-> st]

TablesExist == \A b \in Backends : stores[b].schema

SeqInitSchema(at, e) ==
    /\ stores' = [b \in Backends |-> init_auth_db(stores[b], at, e).store]
    /\ outs' = [b \in Backends |-> init_auth_db(stores[b], at, e).res]
    /\ op' = [op |-> "init_auth_db", at |-> at]
    /\ UNCHANGED << clean, storeVars, validateVars, routeVars, genVars >>

SeqCreateUser(username, pin, salt, created_at, at, e) ==
    /\ \A b \in Backends : stores[b].id_seq < MaxId
    /\ stores' = [b \in Backends |->
                    CreateUserOn(b, stores[b], username, pin, salt,
                                 created_at, at, e).store]
    /\ outs' = [b \in Backends |->
                    CreateUserOn(b, stores[b], username, pin, salt,
                                 created_at, at, e).res]
    /\ op' = [op |-> "create_user", username |-> username, pin |-> pin,
              at |-> at]
    /\ clean' = (clean /\ TablesExist /\ at = "none")
    /\ UNCHANGED << storeVars, validateVars, routeVars, genVars >>

SeqVerifyUser(username, pin, at, e) ==
    /\ stores' = [b \in Backends |->
                    VerifyUserOn(b, stores[b], username, pin, at, e).store]
    /\ outs' = [b \in Backends |->
                    VerifyUserOn(b, stores[b], username, pin, at, e).res]
    /\ op' = [op |-> "verify_user", username |-> username, pin |-> pin,
              at |-> at]
    /\ clean' = (clean /\ TablesExist /\ at = "none")
    /\ UNCHANGED << storeVars, validateVars, routeVars, genVars >>

SeqGetUserById(user_id, at, e) ==
    /\ stores' = [b \in Backends |->
                    GetUserByIdOn(b, stores[b], user_id, at, e).store]
    /\ outs' = [b \in Backends |->
                    GetUserByIdOn(b, stores[b], user_id, at, e).res]
    /\ op' = [op |-> "get_user_by_id", id |-> user_id, at |-> at]
    /\ clean' = (clean /\ TablesExist /\ at = "none")
    /\ UNCHANGED << storeVars, validateVars, routeVars, genVars >>

InitBackends == StoreIdle /\ ValidateIdle /\ SeqIdle /\ RoutesIdle /\ GenIdle

NextBackends ==
    \/ \E at \in {"none", "create_table"}, e \in StorageErrors :
            SeqInitSchema(at, e)
    \/ \E username \in Usernames, pin \in Pins, salt \in Salts,
          created_at \in Times, at \in {"none", "insert", "commit"},
          e \in StorageErrors :
            SeqCreateUser(username, pin, salt, created_at, at, e)
    \/ \E username \in Usernames, pin \in Pins, at \in {"none", "verify"},
          e \in StorageErrors :
            SeqVerifyUser(username, pin, at, e)
    \/ \E user_id \in LookupIds, at \in {"none", "verify"},
          e \in StorageErrors :
            SeqGetUserById(user_id, at, e)

SpecBackends == InitBackends /\ [][NextBackends]_vars

(***************************************************************************)
(* C21: init_auth_db is idempotent.  Called at any point between the other *)
(* store calls, on either backend, it leaves every user record as it was;  *)
(* on a database that has the table it changes nothing; and one more call  *)
(* after a call that succeeded leaves the database as that call left it.   *)
(***************************************************************************)
C21_InitSchemaIdempotent ==
    [][ op'.op = "init_auth_db" =>
          \A b \in Backends :
              /\ stores'[b].users = stores[b].users
              /\ stores[b].schema => stores'[b] = stores[b]
              /\ op'.at = "none" =>
                    /\ stores'[b].schema
                    /\ \A e \in StorageErrors :
                          init_auth_db(stores'[b], "none", e).store
                              = stores'[b]
      ]_vars

C21_Witness ==
    /\ op = [op |-> "init_auth_db", at |-> "none"]
    /\ \A b \in Backends :
          /\ stores[b].schema
          /\ \E r \in stores[b].users : r.username = Alice
          /\ outs[b] = Return(None)

(***************************************************************************)
(* C22: the store works identically on either backend.  After every        *)
(* sequence of create_user, verify_user and get_user_by_id calls from the  *)
(* empty store, with no storage failure, the SQLite database and the       *)
(* PostgreSQL database have given the same outcome, ids and usernames      *)
(* included.                                                               *)
(***************************************************************************)
C22_BackendsAgree ==
    clean => outs["sqlite"] = outs["postgres"]

\* an outcome without its id
WithoutId(r) ==
    IF r.kind = "return" /\ r.value # None
    THEN [kind |-> "return", username |-> r.value.username]
    ELSE r

\* create_user and verify_user agree on the two backends but for the ids
BackendsAgreeButOnIds ==
    clean /\ op.op # "get_user_by_id" =>
        WithoutId(outs["sqlite"]) = WithoutId(outs["postgres"])

(***************************************************************************)
(* C23: the delay slept after failed attempt n (from 1, n < max_retries)   *)
(* of a generate call is retry_delay * n when attempt n met a connection   *)
(* failure and retry_delay when it met a timeout, an HTTP error other than *)
(* 404 or any other error, whatever the earlier attempts met; and every    *)
(* such attempt is followed by its sleep.                                  *)
(***************************************************************************)
C23_DelayByKind ==
    /\ \A n \in 1..Len(sleeps) :
          /\ n < max_retries
          /\ n <= Len(outcomes)
          /\ Retryable(outcomes[n])
          /\ sleeps[n] = IF outcomes[n] = ConnectionError
                         THEN retry_delay * n
                         ELSE retry_delay
    /\ \A n \in 1..Len(outcomes) :
          Retryable(outcomes[n]) /\ n < max_retries =>
              \/ n <= Len(sleeps)
              \/ n = Len(outcomes) /\ gpc = "sleeping"

C23_Witness ==
    /\ max_retries = 4
    /\ retry_delay = 2
    /\ outcomes = << ConnectionError, TimeoutError, ConnectionError, Http500 >>
    /\ sleeps = << 2, 2, 6 >>
    /\ gpc = "exhausted"

(***************************************************************************)
(* C24: every failed attempt of a generate call other than a 404 response  *)
(* (connection failure, timeout, other HTTP error status, other exception) *)
(* is retried while attempts remain: a call has not ended after such a     *)
(* failure of attempt n < max_retries, and when attempt k <= max_retries   *)
(* is the first to succeed the call returns the text of that attempt's     *)
(* response and has sent exactly k requests.                               *)
(***************************************************************************)
FailedNot404(o) ==
    \/ o.kind \in {"connection_error", "timeout", "other"}
    \/ o.kind = "http_error" /\ o.status # 404

Succeeded(o) == o.kind = "ok"

\* the generated text of a response, trimmed
TextOf(o) ==
    IF "response" \in DOMAIN o.body THEN Strip(o.body.response) ELSE << >>

C24_RetriedUntilSuccess ==
    /\ \A n \in 1..Len(outcomes) :
          FailedNot404(outcomes[n]) /\ n < max_retries /\ GenTerminal =>
              n < Len(outcomes)
    /\ \A k \in 1..Len(outcomes) :
          Succeeded(outcomes[k]) =>
              /\ \A n \in 1..(k - 1) : FailedNot404(outcomes[n])
              /\ k <= max_retries
              /\ k = Len(outcomes)
              /\ Len(sent) = k
              /\ gpc = "success"
              /\ gres = Return(TextOf(outcomes[k]))

C24_Witness ==
    /\ max_retries = 4
    /\ Len(outcomes) = 4
    /\ outcomes[1] = ConnectionError
    /\ outcomes[2] = TimeoutError
    /\ outcomes[3] = Http500
    /\ Succeeded(outcomes[4])
    /\ Len(sent) = 4
    /\ gres = Return(<< "H", "i", "." >>)

(***************************************************************************)
(* C25: no store operation changes or removes an existing user record.     *)
(* verify_user and get_user_by_id leave the whole database unchanged, and  *)
(* create_user, whether it succeeds, meets a conflict or fails validation, *)
(* leaves every record that existed before the call as it was: id,         *)
(* username, pin_hash and created_at.                                      *)
(***************************************************************************)
C25_RecordsImmutable ==
    [][ \A b \in Backends :
          /\ op'.op \in {"verify_user", "get_user_by_id"} =>
                stores'[b] = stores[b]
          /\ \A r \in stores[b].users :
                \E r2 \in stores'[b].users :
                    /\ r2.id = r.id
                    /\ r2.username = r.username
                    /\ r2.pin_hash = r.pin_hash
                    /\ r2.created_at = r.created_at
          /\ \A r1, r2 \in stores'[b].users : r1.id = r2.id => r1 = r2
      ]_vars

C25_Witness ==
    /\ op.op = "create_user"
    /\ op.username = Bob
    /\ \A b \in Backends :
          /\ outs[b].kind = "return"
          /\ outs[b].value # None
          /\ \E r \in stores[b].users : r.username = Alice /\ r.id = 1
          /\ \E r \in stores[b].users : r.username = Bob

(***************************************************************************)
(* C26: after a registration request answered 201 the client's session is  *)
(* authenticated as the new user without a login: the status endpoint      *)
(* reports authenticated with that user's id and username, and the         *)
(* protected endpoints (logout, the AI routes) do not answer 401.          *)
(***************************************************************************)
Registered == req.kind = "register" /\ resp.status = 201

C26_RegisteredIsLoggedIn ==
    Registered =>
        \A e \in StorageErrors :
            /\ resp.body.user.username = Strip(req.data.username)
            /\ session = resp.body.user.id
            /\ StatusHandler(users, session, "none", e).resp
                 = Resp(200, [authenticated |-> TRUE, user |-> resp.body.user])
            /\ LogoutHandler(users, session, "none", e).resp.status # 401
            /\ \A r \in AiRequests, ip \in ClientIps, llm \in LlmOutcomes :
                  AiHandler(r[1], users, session, request_counts, config,
                            now, ip, r[2], llm, "none", e).resp.status # 401

\* bob registers while the session is alice123's
C26_Witness ==
    /\ Registered
    /\ req.data.username = Bob
    /\ session = 2
    /\ \E r \in users : r.id = 1 /\ r.username = Alice

(***************************************************************************)
(* C27: logout answers 200 only for an authenticated session and 401       *)
(* otherwise; after a logout answered 200 the session is unauthenticated   *)
(* (status reports authenticated false, the protected endpoints answer     *)
(* 401) and stays so until a login answered 200 or a registration answered *)
(* 201; and a login with the credentials of the user who logged out        *)
(* succeeds.  Requests whose own lookup meets a storage failure answer 500 *)
(* and are not part of the statement.                                      *)
(***************************************************************************)
Authenticated(tbl, sess) == sess # 0 /\ \E r \in tbl : r.id = sess

\* what an unauthenticated session gets from status and the protected routes
AnswersUnauthenticated(tbl, sess) ==
    \A at \in {"none", "verify"}, e \in StorageErrors :
        /\ StatusHandler(tbl, sess, at, e).resp
             = Resp(200, [authenticated |-> FALSE])
        /\ LogoutHandler(tbl, sess, at, e).resp = Unauthorized
        /\ \A r \in AiRequests, ip \in ClientIps, llm \in LlmOutcomes :
              AiHandler(r[1], tbl, sess, request_counts, config, now, ip,
                        r[2], llm, at, e).resp = Unauthorized

\* a login now with the credentials user_id was created with succeeds
CanLogInAgain(tbl, sess, user_id) ==
    \A u \in Usernames, e \in StorageErrors : \A c \in created[u] :
        c.id = user_id =>
            LET h == LoginHandler(tbl, sess, Body(u, c.pin), "none", e)
            IN  /\ h.resp = Resp(200, UserBody(user_id, u))
                /\ h.session = user_id

\* a step that handles a logout request
LogoutStep ==
    req'.kind = "logout" =>
        /\ resp'.status \in {200, 401, 500}
        /\ resp'.status = 200 =>
              /\ Authenticated(users, session)
              /\ session' = 0
              /\ CanLogInAgain(users', session', session)
        /\ ~Authenticated(users, session) /\ resp'.status # 500 =>
              /\ resp' = Unauthorized
              /\ session' = session
        /\ Authenticated(users, session) => resp'.status # 401

\* a step that ends the unauthenticated state of the session
SessionGained ==
    session = 0 /\ session' # 0 =>
        \/ req'.kind = "login" /\ resp'.status = 200
        \/ req'.kind = "register" /\ resp'.status = 201

C27_Logout ==
    /\ [](session = 0 => AnswersUnauthenticated(users, session))
    /\ [][LogoutStep /\ SessionGained]_vars

C27_Witness ==
    /\ req.kind = "logout"
    /\ resp = Resp(200, [success |-> TRUE])
    /\ session = 0
    /\ created[Alice] # {}

(***************************************************************************)
(* C28: on a successful attempt generate returns the generated-text field  *)
(* of the response body with the whitespace before and after it removed,   *)
(* and the empty string, not an error, when the body has no such field.    *)
(***************************************************************************)
AllWhitespace(s) == \A i \in 1..Len(s) : s[i] \in {" ", "\t", "\n", "\r"}

\* t is s without its leading and trailing whitespace
Trimmed(s, t) ==
    \E i \in 1..(Len(s) + 1), j \in 0..Len(s) :
        /\ t = SubSeq(s, i, j)
        /\ AllWhitespace(SubSeq(s, 1, i - 1))
        /\ AllWhitespace(SubSeq(s, j + 1, Len(s)))
        /\ t # << >> => ~AllWhitespace(<< t[1] >>)
                        /\ ~AllWhitespace(<< t[Len(t)] >>)

C28_GeneratedText ==
    gpc = "success" =>
        LET body == outcomes[Len(outcomes)].body
        IN  /\ gres.kind = "return"
            /\ IF "response" \in DOMAIN body
               THEN Trimmed(body.response, gres.value)
               ELSE gres.value = << >>

C28_Witness ==
    /\ gpc = "success"
    /\ outcomes[Len(outcomes)].body
         = [response |-> << " ", "H", "i", ".", "\n" >>, done |-> TRUE]
    /\ gres = Return(<< "H", "i", "." >>)
    /\ Len(outcomes) = 1

(***************************************************************************)
(* C29: when the text the language model returned for an analyze or a      *)
(* patterns request is not JSON, the handler still answers 200, with a     *)
(* fallback result: for analyze the raw text as reflection, no themes, an  *)
(* empty follow_up and crisis_detected false; for patterns the mood_trend  *)
(* 'Unable to determine' and empty lists.                                  *)
(***************************************************************************)
\* the replies tried that are not JSON: plain words, a cut-off object
NotJson(text) == text \in {ReplyText, ReplyTruncated}

GotUnparseableReply ==
    /\ req.kind \in {"analyze", "patterns"}
    /\ reply.kind = "return"
    /\ NotJson(reply.value.text)

C29_ParseFallback ==
    GotUnparseableReply =>
        /\ resp.status = 200
        /\ resp.body.usage = [input_tokens |-> reply.value.usage.input_tokens,
                              output_tokens |-> reply.value.usage.output_tokens]
        /\ req.kind = "analyze" =>
              resp.body.analysis
                  = [reflection |-> reply.value.text, themes |-> << >>,
                     follow_up |-> "", crisis_detected |-> FALSE]
        /\ req.kind = "patterns" =>
              resp.body.patterns
                  = [mood_trend |-> "Unable to determine", themes |-> << >>,
                     positive_patterns |-> << >>, suggestions |-> << >>]

C29_Witness ==
    /\ GotUnparseableReply
    /\ req.kind = "patterns"
    /\ reply.value.text = ReplyTruncated
    /\ resp.status = 200
    /\ resp.body.patterns.mood_trend = "Unable to determine"

(***************************************************************************)
(* C30: an authenticated analyze request whose content has fewer than 10   *)
(* characters after trimming, and an authenticated patterns request with   *)
(* fewer than 3 entries, are each rejected with 400 before any call to the *)
(* language model is made.                                                 *)
(***************************************************************************)
\* the last request was let through by login_required, and its body is a
\* JSON object with too little in it
ShortRequest ==
    /\ req.kind \in {"analyze", "patterns"}
    /\ Len(stages) >= 2
    /\ req.data # NullData
    /\ req.kind = "analyze" =>
          \/ "content" \notin DOMAIN req.data
          \/ Len(Strip(req.data.content)) <= 9
    /\ req.kind = "patterns" =>
          \/ "entries" \notin DOMAIN req.data
          \/ Len(req.data.entries) <= 2

LlmNotCalled ==
    /\ \A i \in DOMAIN stages : stages[i] # "llm"
    /\ reply = NoResult

\* C30 as stated: every such request is answered 400, and no call to the
\* language model is made
C30_ShortIs400 ==
    ShortRequest => resp.status = 400 /\ LlmNotCalled

(***************************************************************************)
(* C30, with the rate limiter in it: every such request is rejected before *)
(* any call to the language model: with 429 when its address is over the   *)
(* hourly limit (rate_limit runs before the body of the handler), with 400 *)
(* and the route's message otherwise.                                      *)
(***************************************************************************)
C30_ShortRejectedBeforeLlm ==
    ShortRequest =>
        /\ LlmNotCalled
        /\ IF stages = << "login_required", "rate_limit" >>
           THEN /\ resp = RateLimited
                /\ config.RATE_LIMIT_ENABLED
                /\ Len(request_counts[req.ip]) >= MAX_REQUESTS_PER_HOUR
           ELSE /\ stages = << "login_required", "rate_limit", "body" >>
                /\ resp.status = 400
                /\ resp.body.error
                     = IF req.kind = "analyze"
                       THEN "Entry content too short for analysis"
                       ELSE "Need at least 3 entries for pattern analysis"

C30_Witness ==
    /\ ShortRequest
    /\ req.kind = "analyze"
    /\ req.data = [content |-> ContentShort]
    /\ resp.status = 400
    /\ config.ANTHROPIC_API_KEY


(***************************************************************************)
(* C31: for every configured max_retries, 0 included, a call sends at      *)
(* least one request to the endpoint before it can fail, so that an        *)
(* Exhausted error always carries the failure reason of an attempt that    *)
(* was really made.                                                        *)
(***************************************************************************)
FailedCall == gpc \in {"model_missing", "exhausted"}

ReasonOfLastAttempt ==
    /\ outcomes # << >>
    /\ gres.msg.last_error = ErrText(outcomes[Len(outcomes)])

C31_RequestBeforeFailure ==
    /\ FailedCall => Len(outcomes) >= 1 /\ Len(sent) >= 1
    /\ gpc = "exhausted" => ReasonOfLastAttempt

\* the same for the clients whose loop has a pass
RequestBeforeFailureWithAttempts ==
    max_retries >= 1 =>
        /\ FailedCall => Len(outcomes) >= 1 /\ Len(sent) >= 1
        /\ gpc = "exhausted" => ReasonOfLastAttempt


(***************************************************************************)
(* C32: a login answered 401 and a registration answered 400 or 409 leave  *)
(* the caller's session as it was: a caller authenticated as a user stays  *)
(* authenticated as that user, an unauthenticated caller stays             *)
(* unauthenticated, and a 409 never makes the caller the user who already  *)
(* has the username.                                                       *)
(***************************************************************************)
FailedLogin == req'.kind = "login" /\ resp'.status = 401

RejectedRegistration == req'.kind = "register" /\ resp'.status \in {400, 409}

\* what the status endpoint reports for the session, storage failures aside
WhoAmI(tbl, sess) ==
    StatusHandler(tbl, sess, "none", CHOOSE e \in StorageErrors : TRUE).resp

NotTheExistingUser ==
    resp'.status = 409 =>
        \A row \in users' :
            row.username = Strip(req'.data.username) /\ row.id # session
                => row.id # session'

SessionKept ==
    /\ session' = session
    /\ WhoAmI(users', session') = WhoAmI(users, session)
    /\ NotTheExistingUser

C32_FailureKeepsSession ==
    [][(FailedLogin \/ RejectedRegistration) => SessionKept]_vars

\* bob, logged in, asks for alice123's username and is still bob
C32_Witness ==
    /\ req.kind = "register"
    /\ resp.status = 409
    /\ req.data.username = Alice
    /\ session = 2
    /\ \E row \in users : row.id = 2 /\ row.username = Bob
    /\ \E row \in users : row.id = 1 /\ row.username = Alice


(***************************************************************************)
(* C33: with rate limiting enabled and requests handled one at a time, for *)
(* every client address the number of requests admitted to the             *)
(* rate-limited AI handlers within any 3600-second window never exceeds    *)
(* MAX_REQUESTS_PER_HOUR: a request that arrives while that many admitted  *)
(* requests lie within the last 3600 seconds is answered 429 and the       *)
(* handler does not run.  A window is the 3600 seconds up to and           *)
(* including an instant, as line 26 and the test of line 30 take it.       *)
(***************************************************************************)
\* the admissions of the address within the 3600 seconds that end at t
AdmittedWithin(ip, t) ==
    { i \in DOMAIN admitted[ip] :
        admitted[ip][i] > t - Hour /\ admitted[ip][i] <= t }

\* every window that ends at an admission, which are the fullest ones
WindowsWithinLimit ==
    \A ip \in ClientIps : \A i \in DOMAIN admitted[ip] :
        Cardinality(AdmittedWithin(ip, admitted[ip][i]))
            <= MAX_REQUESTS_PER_HOUR

HandlerRan(st) == \E i \in DOMAIN st : st[i] = "body"

LimiterRan(st) == \E i \in DOMAIN st : st[i] = "rate_limit"

\* a step that handles a request to an AI route with the limiter enabled
AiStep ==
    /\ ProtectedRequestStep
    /\ req'.kind \in AiKinds
    /\ config.RATE_LIMIT_ENABLED

\* a request that arrives at the limit: 429 and no handler, no record
RefusedAtLimit ==
    (AiStep /\ Cardinality(AdmittedWithin(req'.ip, now))
                >= MAX_REQUESTS_PER_HOUR) =>
        /\ ~HandlerRan(stages')
        /\ admitted' = admitted
        /\ LimiterRan(stages') => resp' = RateLimited

\* a request that arrives below the limit and reaches the limiter is
\* admitted, and the admitted requests are the recorded ones
AdmittedBelowLimit ==
    AiStep =>
        /\ (/\ LimiterRan(stages')
            /\ Cardinality(AdmittedWithin(req'.ip, now))
                  < MAX_REQUESTS_PER_HOUR) => HandlerRan(stages')
        /\ admitted' =
              IF HandlerRan(stages')
              THEN [admitted EXCEPT ![req'.ip] = Append(@, now)]
              ELSE admitted

C33_HourlyLimit ==
    /\ [](config.RATE_LIMIT_ENABLED => WindowsWithinLimit)
    /\ [][RefusedAtLimit /\ AdmittedBelowLimit]_vars

\* an address at its limit again after its first admissions have left the
\* window
C33_Witness ==
    /\ config.RATE_LIMIT_ENABLED
    /\ req.kind \in AiKinds
    /\ resp = RateLimited
    /\ now = Hour
    /\ Len(admitted[req.ip]) = 2 * MAX_REQUESTS_PER_HOUR
    /\ admitted[req.ip][1] = 0
    /\ admitted[req.ip][2 * MAX_REQUESTS_PER_HOUR] = Hour


(***************************************************************************)
(* C35: an unauthenticated request to a rate-limited AI endpoint is        *)
(* answered 401 before the rate limiter runs: it is not recorded and       *)
(* takes nothing from the hourly budget of its client address.             *)
(***************************************************************************)
\* a step that handles a request to an AI route from a caller who is not
\* logged in, or whose user is gone; a failing lookup answers 500
UnauthenticatedAiStep ==
    /\ ProtectedRequestStep
    /\ req'.kind \in AiKinds
    /\ session = 0 \/ NoSuchUser
    /\ resp' # InternalError

\* what the limiter would say to a request from the address at time t
Budget(counts, ip, t) == rate_limit(counts, config, ip, t).admit

C35_UnauthorizedBeforeLimiter ==
    [][UnauthenticatedAiStep =>
          /\ resp' = Unauthorized
          /\ ~LimiterRan(stages') /\ ~HandlerRan(stages')
          /\ request_counts' = request_counts
          /\ admitted' = admitted
          /\ \A t \in {now, now + Hour} :
                Budget(request_counts', req'.ip, t)
                    = Budget(request_counts, req'.ip, t)]_vars

\* an hour after a full budget of admitted requests the caller, logged out,
\* asks again:
\* 401, and the limiter has not even dropped the old entries
C35_Witness ==
    /\ config.RATE_LIMIT_ENABLED
    /\ req.kind \in AiKinds
    /\ session = 0
    /\ resp = Unauthorized
    /\ now = Hour
    /\ request_counts[req.ip] = [i \in 1..MAX_REQUESTS_PER_HOUR |-> 0]
    /\ admitted[req.ip] = request_counts[req.ip]


(***************************************************************************)
(* rate_limit under concurrent requests, routes/ai.py lines 16-42: each    *)
(* request that has passed login_required runs decorated_function on a     *)
(* thread of its own, and the threads share the module's request_counts.   *)
(* A thread can be suspended between any two statements, and between the   *)
(* evaluation of line 30's right-hand side and its assignment.             *)
(***************************************************************************)
\* the admissions the threads may make in a run
MaxAdmissions == 4

InLimiter == { t \in Threads : rl_pc[t] # "idle" }

Recorded(ip) == Len(admitted[ip])

\* lines 20-26: with the limiter disabled the handler runs at once;
\* otherwise the address and the time are taken
RlEnter(t, ip) ==
    /\ rl_pc[t] = "idle"
    /\ Recorded("10.0.0.1") + Recorded("10.0.0.2") + Cardinality(InLimiter)
          < MaxAdmissions
    /\ IF ~config.RATE_LIMIT_ENABLED
       THEN UNCHANGED limVars
       ELSE /\ rl_pc' = [rl_pc EXCEPT ![t] = "filter"]
            /\ rl_local' = [rl_local EXCEPT ![t] =
                  [client_ip |-> ip, current_time |-> now,
                   hour_ago |-> now - Hour, kept |-> << >>]]
    /\ req' = [kind |-> "prompt", data |-> [mood |-> 3], ip |-> ip]
    /\ UNCHANGED << storeVars, validateVars, seqVars, genVars, session,
                    resp, scen, config, request_counts, now, stages, reply,
                    admitted >>

\* lines 29-32, the right-hand side: the list of the recent entries, or a
\* new empty list for an address not seen
RlFilter(t) ==
    /\ rl_pc[t] = "filter"
    /\ rl_local' = [rl_local EXCEPT ![t].kept =
          SelectSeq(request_counts[rl_local[t].client_ip],
                    LAMBDA x : x > rl_local[t].hour_ago)]
    /\ rl_pc' = [rl_pc EXCEPT ![t] = "store"]
    /\ UNCHANGED << storeVars, validateVars, seqVars, genVars, session, req,
                    resp, scen, config, request_counts, now, stages, reply,
                    admitted >>

\* lines 30 and 32, the assignment: the address's list is replaced
RlStore(t) ==
    /\ rl_pc[t] = "store"
    /\ request_counts' =
          [request_counts EXCEPT ![rl_local[t].client_ip] = rl_local[t].kept]
    /\ rl_pc' = [rl_pc EXCEPT ![t] = "check"]
    /\ UNCHANGED << storeVars, validateVars, seqVars, genVars, session, req,
                    resp, scen, config, now, stages, reply, admitted,
                    rl_local >>

\* lines 35-36: the length of the address's list against the limit
RlCheck(t) ==
    /\ rl_pc[t] = "check"
    /\ IF Len(request_counts[rl_local[t].client_ip]) >= MAX_REQUESTS_PER_HOUR
       THEN /\ rl_pc' = [rl_pc EXCEPT ![t] = "idle"]
            /\ rl_local' = [rl_local EXCEPT ![t] = NoLocals]
            /\ resp' = RateLimited
       ELSE /\ rl_pc' = [rl_pc EXCEPT ![t] = "record"]
            /\ UNCHANGED << rl_local, resp >>
    /\ UNCHANGED << storeVars, validateVars, seqVars, genVars, session, req,
                    scen, config, request_counts, now, stages, reply,
                    admitted >>

\* lines 39-41: the time is appended to the address's list and the handler
\* runs
RlRecord(t) ==
    /\ rl_pc[t] = "record"
    /\ request_counts' =
          [request_counts EXCEPT ![rl_local[t].client_ip] =
              Append(@, rl_local[t].current_time)]
    /\ admitted' =
          [admitted EXCEPT ![rl_local[t].client_ip] =
              Append(@, rl_local[t].current_time)]
    /\ rl_pc' = [rl_pc EXCEPT ![t] = "idle"]
    /\ rl_local' = [rl_local EXCEPT ![t] = NoLocals]
    /\ UNCHANGED << storeVars, validateVars, seqVars, genVars, session, req,
                    resp, scen, config, now, stages, reply >>

\* alice123 is logged in; the limiter is enabled or not
InitLimiter ==
    /\ InitAI
    /\ ~config.ANTHROPIC_API_KEY

NextLimiter ==
    \/ \E t \in Threads, ip \in ClientIps : RlEnter(t, ip)
    \/ \E t \in Threads : RlFilter(t)
    \/ \E t \in Threads : RlStore(t)
    \/ \E t \in Threads : RlCheck(t)
    \/ \E t \in Threads : RlRecord(t)
    \/ Tick

SpecLimiter == InitLimiter /\ [][NextLimiter]_vars

(***************************************************************************)
(* C34: when several requests from one client address are handled          *)
(* concurrently on separate threads, in every interleaving of the rate     *)
(* limiter's clean, check and record steps on the shared request_counts    *)
(* the number of requests admitted within any 3600-second window never     *)
(* exceeds MAX_REQUESTS_PER_HOUR, and no recorded admission is lost.       *)
(***************************************************************************)
Occurrences(seq, x) == Cardinality({ i \in DOMAIN seq : seq[i] = x })

\* every admission of the last 3600 seconds is still in the address's list
NoAdmissionLost ==
    \A ip \in ClientIps : \A i \in DOMAIN admitted[ip] :
        admitted[ip][i] > now - Hour =>
            Occurrences(request_counts[ip], admitted[ip][i])
                = Occurrences(admitted[ip], admitted[ip][i])

C34_ConcurrentLimit ==
    config.RATE_LIMIT_ENABLED => WindowsWithinLimit /\ NoAdmissionLost

=============================================================================
